---------------------------- MODULE Spec2Model ----------------------------
(***************************************************************************)
(* A model of the csv-analyzer core: the policy-enforced execution sandbox *)
(* (src/src/core/sandbox_executor.py) and the retry / self-healing loop of *)
(* the orchestrator (src/src/core/workflow.py).                            *)
(*                                                                         *)
(* Two specifications share the variables below:                           *)
(*   SandboxSpec  one SandboxExecutor; execute() is followed statement by  *)
(*                statement, with the SIGALRM timeout as an asynchronous   *)
(*                interrupt;                                               *)
(*   RetrySpec    AnalysisWorkflow.analyze_question and its retry loop,    *)
(*                with the generation service, the deep-analysis service   *)
(*                and execute() as environment choices.                    *)
(***************************************************************************)
EXTENDS Integers, Sequences, FiniteSets, TLC

VARIABLES
    \* ---- SandboxExecutor ----
    hasSIGALRM,      \* hasattr(signal, 'SIGALRM') on this platform
    globals_dict,    \* self.globals_dict: name -> value
    spc,             \* position of the execute() call in progress
    sub,             \* the submission handed to execute()
    ip,              \* index of the next statement of the submission
    elapsed,         \* wall-clock ticks since exec() was entered
    alarm,           \* the pending signal.alarm: "off" or "armed"
    stdout_capture,  \* the io.StringIO buffer of the call
    pending_exc,     \* the exception being handled by `except Exception`
    outcome,         \* what the last execute() returned (or raised)
    h_before,        \* history: globals_dict when the call or reset began
    h_ran,           \* history: statements of the submission run by the call
    h_armed,         \* history: whether the call armed the alarm
    h_path,          \* history: the exit path the call took, or "reset"
    \* ---- AnalysisWorkflow ----
    max_retries,     \* self.max_retries
    wpc,             \* position of analyze_question / the retry loop
    attempt,         \* the loop index of _generate_and_execute_with_retry
    code,            \* the loop's local: the code generated for this attempt
    last_code,       \* the loop's local last_code
    last_result,     \* the loop's local last_result
    error_feedback,  \* the loop's local error_feedback
    thinking_result, \* what analyze_error_with_thinking returned
    ret,             \* the (code, result, retry_count) the loop returned
    turns,           \* session.turns
    asked,           \* questions asked so far (turn_number - 1)
    aq_return,       \* what the last analyze_question returned
    gen_calls,       \* history: generate_code calls of this question
    deep_calls,      \* history: analyze_error_with_thinking calls
    exec_calls,      \* history: executor.execute calls
    h_last_exec,     \* history: the last execute call that returned
    h_last_primary,  \* history: the last such call on a primary/fix submission
    h_gen0_failed,   \* history: generate_code failed on attempt 0
    h_exec_raised,   \* history: an executor.execute call raised
    h_ends,          \* history: how the last attempt ended
    ui_errors,       \* ui.show_error calls made by the loop for this question
    h_explain_failed, \* history: explain_result raised in the last cycle
    h_failures,      \* history: failed attempts and failed deep-analysis fallbacks
    h_stages,        \* history: the stages the last step went through, in order
    \* ---- ConversationCompactor ----
    keep_recent,     \* self.keep_recent
    history,         \* the history handed to compact()
    compacted,       \* what compact() returned
    cpc,             \* "input" before the call, "done" after it
    \* ---- TokenCounter.estimate_tokens ----
    est_text,        \* the text handed to estimate_tokens
    estimated,       \* what estimate_tokens returned for it
    \* ---- TokenCounter: the budget ----
    model_max_tokens,       \* self.model_max_tokens
    compression_threshold,  \* self.compression_threshold, in hundredths
    safe_max_tokens,        \* self.safe_max_tokens
    budget_call,     \* the last should_compact / get_context_window_status
                     \* call: its argument and what it returned
    \* ---- SessionManager.save / load ----
    session_turns,   \* self.turns of the session that is saved
    session_file,    \* the JSON document in the session file, or NoFile
    loaded_turns,    \* the turns of the session load() returned, or NotLoaded
    h_saved_turns,   \* history: session_turns when the file was written
    save_call,       \* the save() whose file is open, or None
    \* ---- TokenCounter.calculate_context_tokens ----
    global_context_instance, \* _global_context_instance of global_context.py
    ctx_args,        \* the arguments of the calculate_context_tokens calls
    snapshot,        \* what the last call returned
    h_first,         \* history: the first call's result and global context,
                     \* and whether the global context was touched since
    h_last,          \* history: the global context at the last call, and
                     \* the number of calls
    \* ---- SessionManager: history queries ----
    enable_smart_compression, \* self.enable_smart_compression
    compactor_set,   \* self.compactor is not None
    qpc,             \* "idle", or "loop" while a question cycle is under way
    view,            \* the history the last query returned
    query,           \* the last query and its arguments
    \* ---- AsyncErrorAnalyzer: the fire-and-forget mode ----
    threads          \* one record per analyze_error_async call: where its
                     \* thread is and what its callback has been given

sandboxVars == <<hasSIGALRM, globals_dict, spc, sub, ip, elapsed, alarm,
                 stdout_capture, pending_exc, outcome, h_before, h_ran,
                 h_armed, h_path>>

retryVars == <<max_retries, wpc, attempt, code, last_code, last_result,
               error_feedback, thinking_result, ret, turns, asked, aq_return,
               gen_calls, deep_calls, exec_calls, h_last_exec, h_last_primary,
               h_gen0_failed, h_exec_raised, h_ends, ui_errors, h_failures,
               h_explain_failed, h_stages>>

compactVars == <<keep_recent, history, compacted, cpc>>

\* the variables of the components checked on their own
estimateVars == <<est_text, estimated>>

budgetVars == <<model_max_tokens, compression_threshold, safe_max_tokens,
                budget_call>>

storeVars == <<session_turns, session_file, loaded_turns, h_saved_turns,
              save_call>>

contextVars == <<global_context_instance, ctx_args, snapshot, h_first,
                 h_last>>

sessionVars == <<enable_smart_compression, compactor_set, qpc, view, query>>

asyncVars == <<threads>>

auxVars == <<compactVars, estimateVars, budgetVars, storeVars, contextVars,
             sessionVars, asyncVars>>

vars == <<sandboxVars, retryVars, auxVars>>

-----------------------------------------------------------------------------
(* Bounds of the model *)

\* the longest submission body, in statements
MaxStmts == 2

\* self.timeout, in ticks of the model's clock
TimeoutTicks == 1

\* the largest configured executor.max_retries
MaxRetries == 3

\* the questions asked in one interactive session
MaxQuestions == 1

\* the longest history handed to compact()
MaxHistory == 4

\* the largest configured keep_recent
MaxKeep == 3

\* the pieces (a character or a code indicator) a text is built from
MaxPieces == 7

\* the largest small total handed to the budget functions
MaxTotal == 32

-----------------------------------------------------------------------------
(* Submissions *)

\* attribute names are character sequences, so that startswith / endswith
\* are computed rather than assumed
AttrDunder == <<"_", "_", "c", "_", "_">>
AttrLead == <<"_", "_", "c">>

FORBIDDEN_BUILTINS ==
    {"eval", "exec", "compile", "__import__", "open", "input", "raw_input",
     "execfile", "file", "reload", "vars", "locals", "globals", "dir",
     "getattr", "setattr", "delattr", "hasattr"}

FORBIDDEN_MODULES ==
    {"os", "sys", "subprocess", "shutil", "socket", "urllib", "requests",
     "pickle", "shelve", "marshal", "importlib", "__builtin__", "builtins"}

ALLOWED_BUILTINS ==
    {"abs", "all", "any", "ascii", "bin", "bool", "bytearray", "bytes",
     "chr", "complex", "dict", "divmod", "enumerate", "filter", "float",
     "format", "frozenset", "hex", "int", "isinstance", "issubclass",
     "iter", "len", "list", "map", "max", "min", "next", "oct", "ord",
     "pow", "print", "range", "repr", "reversed", "round", "set", "slice",
     "sorted", "str", "sum", "tuple", "type", "zip", "Exception",
     "ValueError", "TypeError", "KeyError", "IndexError", "AttributeError"}

\* the statements a submission is made of
Statements ==
    {[op |-> "assign", name |-> "x", val |-> 1],
     [op |-> "assign", name |-> "pd", val |-> <<"object", 1>>],
     [op |-> "print"],
     [op |-> "import", module |-> "os"],
     [op |-> "import", module |-> "json"],
     [op |-> "import_from", module |-> "json"],
     [op |-> "call", func |-> "__import__"],
     [op |-> "attr", attr |-> AttrDunder],
     [op |-> "attr", attr |-> AttrLead],
     [op |-> "raise", cls |-> "ValueError", msg |-> ""],
     [op |-> "raise", cls |-> "KeyError", msg |-> "'__import__'"]}

Bodies == UNION {[1..n -> Statements] : n \in 0..MaxStmts}

\* parses:   ast.parse(code) succeeds
\* compiles: compile(code, '<sandbox>', 'exec') succeeds (implies parses)
\* catch:    the body sits in  try: ... except Exception: pass
Submissions ==
    {[parses |-> TRUE, compiles |-> TRUE, catch |-> c, body |-> b] :
        c \in BOOLEAN, b \in Bodies}
    \cup {[parses |-> TRUE, compiles |-> FALSE, catch |-> FALSE, body |-> b] :
        b \in Bodies}
    \cup {[parses |-> FALSE, compiles |-> FALSE, catch |-> FALSE, body |-> <<>>]}


-----------------------------------------------------------------------------
(* Messages: a message is the sequence of the fragments it is formatted    *)
(* from; str(e) of an exception raised without text is the empty sequence. *)

\* the fragments that contain the text '__import__'
ImportFragments == {"__import__", "'__import__'", "__import__ not found"}

\* '__import__' in error_msg.lower()
MentionsImport(msg) == \E i \in 1..Len(msg) : msg[i] \in ImportFragments

\* str(e)
StrOf(text) == IF text = "" THEN <<>> ELSE <<text>>

\* the explanatory text naming pd, np, plt, sns, datetime, timedelta, math
FriendlyCheckMsg == <<"code safety check failed: ", "__import__", "() is forbidden; use the preloaded pd, np, plt, sns">>
FriendlyRunMsg == <<"__import__ not found", ": use the preloaded pd, np, plt, sns">>

\* the attribute name as written in the message
AttrText(attr) ==
    IF attr = AttrDunder THEN "__c__" ELSE "__c"

-----------------------------------------------------------------------------
(* SandboxExecutor._check_code_safety *)

\* str.startswith('__') and str.endswith('__')
StartsWith2(attr) == Len(attr) >= 2 /\ attr[1] = "_" /\ attr[2] = "_"
EndsWith2(attr) == Len(attr) >= 2 /\ attr[Len(attr) - 1] = "_" /\ attr[Len(attr)] = "_"

IsMagicAttrSlip(attr) == StartsWith2(attr) /\ ~EndsWith2(attr)
IsMagicAttr(attr) == StartsWith2(attr) /\ EndsWith2(attr)

\* the AST nodes of one statement that the walk looks at
ImportNodes(st) ==
    CASE st.op = "import"      -> <<[type |-> "Import", name |-> st.module]>>
      [] st.op = "import_from" -> <<[type |-> "ImportFrom", name |-> st.module]>>
      [] OTHER                 -> <<>>

ExprNodes(st) ==
    CASE st.op = "call"  -> <<[type |-> "Call", name |-> st.func]>>
      [] st.op = "print" -> <<[type |-> "Call", name |-> "print"]>>
      [] st.op = "raise" -> <<[type |-> "Call", name |-> st.cls]>>
      [] st.op = "attr"  -> <<[type |-> "Attribute", attr |-> st.attr]>>
      [] OTHER           -> <<>>

RECURSIVE Concat(_, _)
Concat(seqs, i) ==
    IF i > Len(seqs) THEN <<>> ELSE seqs[i] \o Concat(seqs, i + 1)

\* ast.walk is breadth-first: the statement nodes come before the
\* expression nodes nested in them
AstWalk(body) ==
    Concat([i \in 1..Len(body) |-> ImportNodes(body[i])], 1)
        \o Concat([i \in 1..Len(body) |-> ExprNodes(body[i])], 1)

\* the branch of the loop body taken for one node: the message of the
\* CodeSecurityError it raises, or <<>> when it raises none
NodeCheck(node) ==
    CASE node.type = "Import" ->
            IF node.name \in FORBIDDEN_MODULES
            THEN <<"forbidden module: ", node.name>> ELSE <<>>
      [] node.type = "ImportFrom" ->
            IF node.name \in FORBIDDEN_MODULES
            THEN <<"forbidden module: ", node.name>> ELSE <<>>
      [] node.type = "Call" ->
            IF node.name \in FORBIDDEN_BUILTINS
            THEN <<"forbidden function: ", node.name>> ELSE <<>>
      [] node.type = "Attribute" ->
            IF IsMagicAttr(node.attr)
            THEN <<"forbidden magic attribute: ", AttrText(node.attr)>> ELSE <<>>
      [] OTHER -> <<>>

\* the first node of the walk that raises, 0 when none does
FirstViolation(walk) ==
    IF \E i \in 1..Len(walk) : NodeCheck(walk[i]) # <<>>
    THEN CHOOSE i \in 1..Len(walk) :
            /\ NodeCheck(walk[i]) # <<>>
            /\ \A j \in 1..(i - 1) : NodeCheck(walk[j]) = <<>>
    ELSE 0

\* a policy check that reports a parse failure as a violation
check_code_safety_rejecting_parse_failure(src) ==
    IF ~src.parses
    THEN [violation |-> TRUE, msg |-> <<"invalid syntax">>]
    ELSE LET walk == AstWalk(src.body)
             k == FirstViolation(walk)
         IN IF k = 0
            THEN [violation |-> FALSE, msg |-> <<>>]
            ELSE [violation |-> TRUE, msg |-> NodeCheck(walk[k])]

\* violation: CodeSecurityError was raised; msg: its text
check_code_safety(src) ==
    IF ~src.parses
    THEN [violation |-> FALSE, msg |-> <<>>]
    ELSE LET walk == AstWalk(src.body)
             k == FirstViolation(walk)
         IN IF k = 0
            THEN [violation |-> FALSE, msg |-> <<>>]
            ELSE [violation |-> TRUE, msg |-> NodeCheck(walk[k])]

-----------------------------------------------------------------------------
(* The outcomes execute() returns *)

NoOutcome == [none |-> TRUE]

\* execute: the CodeSecurityError branch
SecurityOutcome(msg) ==
    LET error_msg == IF MentionsImport(msg) THEN FriendlyCheckMsg ELSE msg
    IN [success |-> FALSE, error_type |-> "SecurityError", error |-> error_msg,
        error_message |-> error_msg, traceback |-> <<>>]

\* execute: the SyntaxError branch
SyntaxOutcome ==
    [success |-> FALSE, error_type |-> "SyntaxError",
     error |-> <<"invalid syntax">>, traceback |-> <<"tb">>]

SuccessOutcome(out) ==
    [success |-> TRUE, stdout |-> out, stderr |-> <<>>]

\* a timeout branch that returns no captured output
TimeoutOutcomeDroppingOutput(out) ==
    [success |-> FALSE, error_type |-> "TimeoutError",
     error |-> <<"execution timed out">>, traceback |-> <<"tb">>,
     stdout |-> <<>>, stderr |-> <<>>]

\* _execute_with_timeout: the `except TimeoutError` branch
TimeoutOutcome(out) ==
    [success |-> FALSE, error_type |-> "TimeoutError",
     error |-> <<"execution timed out">>, traceback |-> <<"tb">>,
     stdout |-> out, stderr |-> <<>>]

\* _execute_with_timeout: the `except Exception` branch
ExceptionOutcome(e, out) ==
    LET rewrite == MentionsImport(StrOf(e.msg))
        error_type == IF rewrite THEN "ImportError" ELSE e.cls
        error_msg == IF rewrite THEN FriendlyRunMsg ELSE StrOf(e.msg)
    IN [success |-> FALSE, error_type |-> error_type, error |-> error_msg,
        error_message |-> error_msg, traceback |-> <<"tb">>,
        stdout |-> out, stderr |-> <<>>]

\* an exception that leaves execute() instead of an outcome
Raised(cls) == [raised |-> cls]

NoException == [cls |-> "", msg |-> ""]

-----------------------------------------------------------------------------
(* SandboxExecutor: the namespace *)

\* the names of the host's builtins module that matter here
HostBuiltins ==
    ALLOWED_BUILTINS \cup
    {"eval", "exec", "compile", "__import__", "open", "input", "vars",
     "locals", "globals", "dir", "getattr", "setattr", "delattr", "hasattr",
     "ZeroDivisionError", "RuntimeError", "NameError", "ImportError"}

\* the names safe_builtins.update(...) sets
UpdatedBuiltins ==
    {"float", "int", "str", "bool", "list", "dict", "tuple", "set", "len",
     "print", "range", "sum", "max", "min", "abs", "round", "sorted",
     "enumerate", "zip", "map", "filter", "all", "any", "isinstance", "type",
     "issubclass", "Exception", "ValueError", "TypeError", "KeyError",
     "IndexError", "AttributeError", "ZeroDivisionError", "RuntimeError"}

safe_builtins == (ALLOWED_BUILTINS \cap HostBuiltins) \cup UpdatedBuiltins

CapabilityHandles == {"pd", "np", "plt", "sns", "datetime", "timedelta", "math"}

\* self.globals_dict as _init_globals leaves it
init_globals ==
    [n \in CapabilityHandles \cup {"__builtins__"} |->
        IF n = "__builtins__" THEN safe_builtins ELSE <<"handle", n>>]

\* d[name] = value
Bind(d, name, value) ==
    [n \in DOMAIN d \cup {name} |-> IF n = name THEN value ELSE d[n]]

Datasets == {<<"dataset", 1>>, <<"dataset", 2>>}

-----------------------------------------------------------------------------
(* exec(code, self.globals_dict), one statement at a time *)

\* the exception statement st raises in namespace g, NoException when none
StmtRaises(st, g) ==
    LET builtins == g["__builtins__"]
        NameError == [cls |-> "NameError", msg |-> "name is not defined"]
    IN CASE st.op \in {"import", "import_from"} ->
               IF "__import__" \in builtins THEN NoException
               ELSE [cls |-> "ImportError", msg |-> "__import__ not found"]
         [] st.op = "call" ->
               IF st.func \in builtins THEN NoException ELSE NameError
         [] st.op = "print" ->
               IF "print" \in builtins THEN NoException ELSE NameError
         [] st.op = "raise" ->
               IF st.cls \in builtins THEN [cls |-> st.cls, msg |-> st.msg]
               ELSE NameError
         [] OTHER -> NoException

\* the namespace after statement st ran without raising
StmtGlobals(st, g) ==
    IF st.op = "assign" THEN Bind(g, st.name, st.val) ELSE g

\* the captured standard output after statement st ran without raising
StmtStdout(st, out) ==
    IF st.op = "print" THEN Append(out, "line") ELSE out

\* signal.alarm(self.timeout)
signal_alarm_set(a) == IF hasSIGALRM THEN "armed" ELSE a

\* signal.alarm(0)
signal_alarm_cancel(a) == IF hasSIGALRM THEN "off" ELSE a

\* the finally clause of _execute_with_timeout
finally_clause_skipped(a) == a
finally_clause(a) == signal_alarm_cancel(a)

\* the kernel delivers SIGALRM once self.timeout has elapsed; the handler
\* then runs before the next bytecode
AlarmDue == alarm = "armed" /\ elapsed >= TimeoutTicks

InCall == spc \in {"exec", "post", "exc"}

-----------------------------------------------------------------------------
(* SandboxExecutor: the operations *)

NoSubmission ==
    [parses |-> FALSE, compiles |-> FALSE, catch |-> FALSE, body |-> <<>>]

\* no execute() call is in progress and none has returned to the caller yet
NoCall ==
    /\ sub = NoSubmission
    /\ ip = 1
    /\ elapsed = 0
    /\ stdout_capture = <<>>
    /\ pending_exc = NoException
    /\ outcome = NoOutcome
    /\ h_before = init_globals
    /\ h_ran = 0
    /\ h_armed = FALSE
    /\ h_path = "none"

CompactIdle ==
    /\ keep_recent = 0
    /\ history = <<>>
    /\ compacted = <<>>
    /\ cpc = "idle"

\* the components checked on their own are not part of this specification
EstimateIdle ==
    /\ est_text = <<>>
    /\ estimated = 0

BudgetIdle ==
    /\ model_max_tokens = 0
    /\ compression_threshold = 0
    /\ safe_max_tokens = 0
    /\ budget_call = [none |-> TRUE]

StoreIdle ==
    /\ session_turns = <<>>
    /\ session_file = [json |-> "no file"]
    /\ loaded_turns = [loaded |-> FALSE, turns |-> <<>>]
    /\ h_saved_turns = <<>>
    /\ save_call = [none |-> TRUE]

ContextIdle ==
    /\ global_context_instance = [none |-> TRUE]
    /\ ctx_args = [none |-> TRUE]
    /\ snapshot = [none |-> TRUE]
    /\ h_first = [none |-> TRUE]
    /\ h_last = [none |-> TRUE]

SessionIdle ==
    /\ enable_smart_compression = FALSE
    /\ compactor_set = FALSE
    /\ qpc = "idle"
    /\ view = <<>>
    /\ query = [none |-> TRUE]

AsyncIdle == threads = <<>>

AuxIdle ==
    /\ CompactIdle
    /\ EstimateIdle
    /\ BudgetIdle
    /\ StoreIdle
    /\ ContextIdle
    /\ SessionIdle
    /\ AsyncIdle

\* the orchestrator is not part of SandboxSpec
RetryIdle ==
    /\ max_retries = 0
    /\ wpc = "ready"
    /\ attempt = 0
    /\ code = "None"
    /\ last_code = "None"
    /\ last_result = NoOutcome
    /\ error_feedback = NoOutcome
    /\ thinking_result = NoOutcome
    /\ ret = NoOutcome
    /\ turns = <<>>
    /\ asked = 0
    /\ aq_return = FALSE
    /\ gen_calls = 0
    /\ deep_calls = 0
    /\ exec_calls = 0
    /\ h_last_exec = NoOutcome
    /\ h_last_primary = NoOutcome
    /\ h_gen0_failed = FALSE
    /\ h_exec_raised = FALSE
    /\ h_ends = "none"
    /\ ui_errors = 0
    /\ h_explain_failed = FALSE
    /\ h_failures = 0
    /\ h_stages = <<"end">>

SandboxInit ==
    /\ RetryIdle
    /\ AuxIdle
    /\ hasSIGALRM \in BOOLEAN
    /\ globals_dict = init_globals
    /\ spc = "idle"
    /\ alarm = "off"
    /\ NoCall

\* set_dataframe(df)
SetDataframe ==
    /\ spc = "idle"
    /\ \E df \in Datasets : globals_dict' = Bind(globals_dict, "df", df)
    /\ UNCHANGED <<hasSIGALRM, spc, sub, ip, elapsed, alarm, stdout_capture,
                   pending_exc, outcome, h_before, h_ran, h_armed, h_path>>
    /\ UNCHANGED <<retryVars, auxVars>>

\* a reset that rebuilds the namespace and forgets the dataset
reset_without_backup(g) == init_globals

\* the namespace reset() leaves: df_backup, _init_globals(), df restored
reset(g) ==
    IF "df" \in DOMAIN g THEN Bind(init_globals, "df", g["df"])
    ELSE init_globals

\* reset()
Reset ==
    /\ spc = "idle"
    /\ globals_dict' = reset(globals_dict)
    /\ h_before' = globals_dict
    /\ h_path' = "reset"
    /\ UNCHANGED <<hasSIGALRM, spc, sub, ip, elapsed, alarm, stdout_capture,
                   pending_exc, outcome, h_ran, h_armed>>
    /\ UNCHANGED <<retryVars, auxVars>>

\* what every entry into execute(code) records
EnterCall(src) ==
    /\ sub' = src
    /\ h_before' = globals_dict
    /\ h_ran' = 0
    /\ ip' = 1
    /\ elapsed' = 0
    /\ stdout_capture' = <<>>
    /\ pending_exc' = NoException

\* execute(code): _check_code_safety raises CodeSecurityError
ExecutePolicyViolation ==
    /\ spc = "idle"
    /\ \E src \in Submissions :
          /\ check_code_safety(src).violation
          /\ EnterCall(src)
          /\ outcome' = SecurityOutcome(check_code_safety(src).msg)
    /\ h_path' = "policy"
    /\ h_armed' = FALSE
    /\ spc' = "returned"
    /\ UNCHANGED <<hasSIGALRM, globals_dict, alarm>>
    /\ UNCHANGED <<retryVars, auxVars>>

\* execute(code) with the syntax check made after the alarm is armed
ExecuteSyntaxErrorAfterArming ==
    /\ spc = "idle"
    /\ \E src \in Submissions :
          /\ ~check_code_safety(src).violation
          /\ ~src.compiles
          /\ EnterCall(src)
    /\ outcome' = SyntaxOutcome
    /\ h_path' = "syntax"
    /\ h_armed' = hasSIGALRM
    /\ alarm' = signal_alarm_set(alarm)
    /\ spc' = "returned"
    /\ UNCHANGED <<hasSIGALRM, globals_dict>>
    /\ UNCHANGED <<retryVars, auxVars>>

\* execute(code): compile raises SyntaxError
ExecuteSyntaxError ==
    /\ spc = "idle"
    /\ \E src \in Submissions :
          /\ ~check_code_safety(src).violation
          /\ ~src.compiles
          /\ EnterCall(src)
    /\ outcome' = SyntaxOutcome
    /\ h_path' = "syntax"
    /\ h_armed' = FALSE
    /\ spc' = "returned"
    /\ UNCHANGED <<hasSIGALRM, globals_dict, alarm>>
    /\ UNCHANGED <<retryVars, auxVars>>

\* execute(code): both checks pass; _execute_with_timeout arms the alarm
\* and enters exec
ExecuteStart ==
    /\ spc = "idle"
    /\ \E src \in Submissions :
          /\ ~check_code_safety(src).violation
          /\ src.compiles
          /\ EnterCall(src)
          /\ spc' = IF Len(src.body) = 0 THEN "post" ELSE "exec"
    /\ alarm' = signal_alarm_set(alarm)
    /\ h_armed' = hasSIGALRM
    /\ outcome' = NoOutcome
    /\ h_path' = "none"
    /\ UNCHANGED <<hasSIGALRM, globals_dict>>
    /\ UNCHANGED <<retryVars, auxVars>>

\* wall-clock time passes while the call is in progress
Tick ==
    /\ InCall
    /\ ~AlarmDue
    /\ elapsed <= TimeoutTicks
    /\ elapsed' = elapsed + 1
    /\ UNCHANGED <<hasSIGALRM, globals_dict, spc, sub, ip, alarm,
                   stdout_capture, pending_exc, outcome, h_before, h_ran,
                   h_armed, h_path>>
    /\ UNCHANGED <<retryVars, auxVars>>

\* exec runs the next statement of the submission
RunStatement ==
    /\ spc = "exec"
    /\ ~AlarmDue
    /\ LET st == sub.body[ip]
           exc == StmtRaises(st, globals_dict)
           last == ip = Len(sub.body)
       IN /\ h_ran' = h_ran + 1
          /\ IF exc = NoException
             THEN /\ globals_dict' = StmtGlobals(st, globals_dict)
                  /\ stdout_capture' = StmtStdout(st, stdout_capture)
                  /\ spc' = IF last THEN "post" ELSE "exec"
                  /\ ip' = IF last THEN ip ELSE ip + 1
                  /\ UNCHANGED pending_exc
             ELSE IF sub.catch
             THEN \* swallowed by the submission's own except clause
                  /\ spc' = "post"
                  /\ UNCHANGED <<globals_dict, stdout_capture, ip, pending_exc>>
             ELSE \* propagates to `except Exception` of _execute_with_timeout
                  /\ spc' = "exc"
                  /\ pending_exc' = exc
                  /\ UNCHANGED <<globals_dict, stdout_capture, ip>>
    /\ UNCHANGED <<hasSIGALRM, sub, elapsed, alarm, outcome, h_before,
                   h_armed, h_path>>
    /\ UNCHANGED <<retryVars, auxVars>>

\* timeout_handler: SIGALRM is delivered and TimeoutError is raised at the
\* point the call has reached
TimeoutHandler ==
    /\ InCall
    /\ AlarmDue
    /\ alarm' = "off"
    /\ CASE spc = "exec" /\ sub.catch ->
              \* raised inside the submission's try block and swallowed there
              /\ spc' = "post"
              /\ UNCHANGED <<outcome, h_path>>
         [] spc = "exec" /\ ~sub.catch ->
              /\ spc' = "returned"
              /\ outcome' = TimeoutOutcome(stdout_capture)
              /\ h_path' = "timeout"
         [] spc = "post" ->
              \* exec has returned, signal.alarm(0) not yet reached
              /\ spc' = "returned"
              /\ outcome' = TimeoutOutcome(stdout_capture)
              /\ h_path' = "timeout"
         [] spc = "exc" ->
              \* raised inside the except clause: leaves execute()
              /\ spc' = "returned"
              /\ outcome' = Raised("TimeoutError")
              /\ h_path' = "raised"
    /\ UNCHANGED <<hasSIGALRM, globals_dict, sub, ip, elapsed,
                   stdout_capture, pending_exc, h_before, h_ran, h_armed>>
    /\ UNCHANGED <<retryVars, auxVars>>

\* signal.alarm(0); return {'success': True, ...}; finally
ReturnSuccess ==
    /\ spc = "post"
    /\ ~AlarmDue
    /\ alarm' = finally_clause(signal_alarm_cancel(alarm))
    /\ outcome' = SuccessOutcome(stdout_capture)
    /\ h_path' = "success"
    /\ spc' = "returned"
    /\ UNCHANGED <<hasSIGALRM, globals_dict, sub, ip, elapsed,
                   stdout_capture, pending_exc, h_before, h_ran, h_armed>>
    /\ UNCHANGED <<retryVars, auxVars>>

\* except Exception: return {'success': False, ...}; finally
ReturnException ==
    /\ spc = "exc"
    /\ ~AlarmDue
    /\ alarm' = finally_clause(alarm)
    /\ outcome' = ExceptionOutcome(pending_exc, stdout_capture)
    /\ h_path' = "exception"
    /\ spc' = "returned"
    /\ UNCHANGED <<hasSIGALRM, globals_dict, sub, ip, elapsed,
                   stdout_capture, pending_exc, h_before, h_ran, h_armed>>
    /\ UNCHANGED <<retryVars, auxVars>>

\* a sandbox that rebuilds its namespace after every call
ReturnToCallerDroppingBindings ==
    /\ spc = "returned"
    /\ spc' = "idle"
    /\ sub' = NoSubmission
    /\ ip' = 1
    /\ elapsed' = 0
    /\ stdout_capture' = <<>>
    /\ pending_exc' = NoException
    /\ outcome' = NoOutcome
    /\ h_before' = init_globals
    /\ h_ran' = 0
    /\ h_armed' = FALSE
    /\ h_path' = "none"
    /\ globals_dict' = reset(globals_dict)
    /\ UNCHANGED <<hasSIGALRM, alarm>>
    /\ UNCHANGED <<retryVars, auxVars>>

\* the caller has taken what execute() returned; the call's locals are gone
ReturnToCaller ==
    /\ spc = "returned"
    /\ spc' = "idle"
    /\ sub' = NoSubmission
    /\ ip' = 1
    /\ elapsed' = 0
    /\ stdout_capture' = <<>>
    /\ pending_exc' = NoException
    /\ outcome' = NoOutcome
    /\ h_before' = init_globals
    /\ h_ran' = 0
    /\ h_armed' = FALSE
    /\ h_path' = "none"
    /\ UNCHANGED <<hasSIGALRM, globals_dict, alarm>>
    /\ UNCHANGED <<retryVars, auxVars>>

SandboxNext ==
    \/ SetDataframe
    \/ Reset
    \/ ExecutePolicyViolation
    \/ ExecuteSyntaxError
    \/ ExecuteStart
    \/ Tick
    \/ RunStatement
    \/ TimeoutHandler
    \/ ReturnSuccess
    \/ ReturnException
    \/ ReturnToCaller

SandboxSpec == SandboxInit /\ [][SandboxNext]_vars


-----------------------------------------------------------------------------
(* Claims about the sandbox, checked under SandboxSpec.  A claim about what *)
(* execute() returns is read in the states where spc = "returned".          *)

HasImport(body) ==
    \E i \in 1..Len(body) : body[i].op \in {"import", "import_from"}

\* the double-underscore naming convention: __name__
FollowsDunderConvention(attr) ==
    /\ Len(attr) >= 5
    /\ attr[1] = "_" /\ attr[2] = "_"
    /\ attr[Len(attr) - 1] = "_" /\ attr[Len(attr)] = "_"

HasDunderAttribute(body) ==
    \E i \in 1..Len(body) :
        body[i].op = "attr" /\ FollowsDunderConvention(body[i].attr)

\* C1: every submission that parses and contains an import or from-import
\* statement, of any module, is rejected by the static policy check, and
\* execute returns a failed outcome without running any of its statements.
C1_EveryImportRejected ==
    (spc = "returned" /\ sub.parses /\ HasImport(sub.body))
        => /\ check_code_safety(sub).violation
           /\ h_path = "policy"
           /\ outcome.success = FALSE
           /\ h_ran = 0

\* C2: every submission that parses and contains a dunder attribute access
\* is flagged by the policy check, and execute returns a failed outcome of
\* the security error kind, whatever else the submission contains.
C2_DunderAttributeRejected ==
    (spc = "returned" /\ sub.parses /\ HasDunderAttribute(sub.body))
        => /\ check_code_safety(sub).violation
           /\ h_path = "policy"
           /\ outcome.success = FALSE
           /\ outcome.error_type = "SecurityError"

\* a dunder access behind a harmless first statement, in a submission that
\* compiles, has been rejected
C2_Witness ==
    /\ spc = "returned"
    /\ sub.compiles
    /\ Len(sub.body) = 2
    /\ sub.body[1].op = "assign"
    /\ sub.body[2].op = "attr"
    /\ FollowsDunderConvention(sub.body[2].attr)
    /\ outcome.error_type = "SecurityError"

\* C3: when execute ends with a policy violation or a syntax error the
\* submission had no side effect: the namespace is what it was before the
\* call, no statement ran, nothing was captured, no alarm was armed.
C3_RejectionHasNoSideEffect ==
    (spc = "returned" /\ h_path \in {"policy", "syntax"})
        => /\ globals_dict = h_before
           /\ h_ran = 0
           /\ stdout_capture = <<>>
           /\ "stdout" \notin DOMAIN outcome
           /\ ~h_armed
           /\ alarm = "off"

\* a submission that would have printed and then broken the policy was
\* rejected, in a namespace that holds a binding of an earlier submission
C3_Witness ==
    /\ spc = "returned"
    /\ h_path = "policy"
    /\ Len(sub.body) = 2
    /\ sub.body[1].op = "print"
    /\ "x" \in DOMAIN globals_dict

\* C4: a submission that passed both checks and whose run exceeded the
\* configured timeout yields error_type = TimeoutError and success = false.
C4_ExceededTimeoutIsReported ==
    (spc = "returned" /\ h_path \in {"success", "timeout", "exception"}
        /\ elapsed > TimeoutTicks)
        => /\ outcome.success = FALSE
           /\ outcome.error_type = "TimeoutError"

\* C5: after every return from execute, on every exit path, no timeout
\* interrupt is pending.
C5_NoAlarmPendingAfterReturn ==
    spc \in {"returned", "idle"} => alarm = "off"

\* a call that armed the alarm has ended through the runtime-exception path
C5_Witness ==
    /\ spc = "returned"
    /\ h_armed
    /\ h_path = "exception"

ErrorFields == {"error_type", "error", "error_message", "traceback"}

\* C6: a returned outcome with success = false has a non-empty error kind
\* and a non-empty error message; one with success = true has no error
\* field.
C6_OutcomeFieldsConsistent ==
    (spc = "returned" /\ h_path # "raised")
        => IF outcome.success
           THEN ErrorFields \cap DOMAIN outcome = {}
           ELSE /\ "error_type" \in DOMAIN outcome
                /\ outcome.error_type # ""
                /\ "error" \in DOMAIN outcome
                /\ outcome.error # <<>>


-----------------------------------------------------------------------------
(* AnalysisWorkflow: the values the retry loop handles *)

\* Python's None, for a code string
NoCode == "None"

\* Python's None, for a dict
None == [none |-> TRUE]

\* the code strings the generation services return
Codes == {"code_a", "code_b"}

\* what executor.execute(code) returns to the loop
ExecOutcomes ==
    {SuccessOutcome(<<"line">>),
     SecurityOutcome(<<"forbidden module: ", "os">>),
     TimeoutOutcome(<<>>),
     ExceptionOutcome([cls |-> "ValueError", msg |-> ""], <<>>)}

\* what analyze_error_with_thinking returns
ThinkingResults ==
    {[success |-> TRUE, code |-> c] : c \in Codes}
        \cup {[success |-> FALSE, code |-> NoCode]}

\* dict.get(key, default)
Get(d, key, default) == IF key \in DOMAIN d THEN d[key] ELSE default

\* error feedback that leaves out the traceback
ErrorFeedbackWithoutTraceback(c, result) ==
    [code |-> c,
     error_type |-> Get(result, "error_type", "Unknown"),
     error_message |-> Get(result, "error", <<"Unknown error">>),
     traceback |-> <<>>]

\* the error_feedback dict built from a failed result
ErrorFeedback(c, result) ==
    [code |-> c,
     error_type |-> Get(result, "error_type", "Unknown"),
     error_message |-> Get(result, "error", <<"Unknown error">>),
     traceback |-> Get(result, "traceback", <<>>)]

\* a returned (code, result, retry_count) tuple
Return3(c, result, n) == [code |-> c, result |-> result, retry_count |-> n]

\* return code, result, attempt
SuccessReturn(c, result, lc, att) == Return3(c, result, att)

\* return thinking_result['code'], thinking_exec_result, attempt
ThinkingReturnPrimaryCode(tcode, tresult, lc, att) == Return3(lc, tresult, att)
ThinkingReturn(tcode, tresult, lc, att) == Return3(tcode, tresult, att)

\* an except clause that returns no result after the last attempt
ExceptReturnWithoutResult(lc, lr, att) == Return3(lc, None, att)

\* except Exception: ... return last_code, last_result, attempt
ExceptReturn(lc, lr, att) == Return3(lc, lr, att)

\* after the loop: return last_code, last_result, self.max_retries
ExhaustedReturn(lc, lr) == Return3(lc, lr, max_retries)

\* except Exception: if attempt < self.max_retries - 1
ExceptContinuesFatalOnFirst(att) == att > 0 /\ att < max_retries - 1
ExceptContinues(att) == att < max_retries - 1

\* thinking_result.get('success') and thinking_result.get('code')
ThinkingUsable(tr) == tr.success /\ tr.code # NoCode

\* what a failed deep-analysis candidate leaves in last_code, last_result
CandidateKeepsAsLast(cur, candidate) == candidate
CandidateKeeps(cur, candidate) == cur

-----------------------------------------------------------------------------
(* AnalysisWorkflow._generate_and_execute_with_retry *)

\* self.ui.show_error(...)
show_error(n) == n + 1

\* analyze_question before the loop: get_context_window_status, then
\* get_recent_history
AskStages == <<"budget", "history">>

\* execute(code): _check_code_safety; when it passes, the syntax check and
\* the run
ExecuteStages(result) ==
    IF Get(result, "error_type", "") = "SecurityError" THEN <<"policy">>
    ELSE <<"policy", "execution">>

\* a cycle that stores the turn before it asks for the explanation
FinishStagesAppendFirst == <<"append", "explanation">>

\* analyze_question after the loop: explain_result, then add_turn
FinishStages == <<"explanation", "append">>

\* a fallback tried after every failed execution
DeepAnalysisDueOnEveryAttempt(att) == att >= 0

\* if attempt == 0: the failed execution is followed by the deep analysis
DeepAnalysisDue(att) == att = 0

\* an iteration end at which the deep-analysis fallback of attempt 0 has
\* used up a slot of its own
EndOfIterationCountingFallback(lc, lr) ==
    LET nxt == IF attempt = 0 THEN 2 ELSE attempt + 1
    IN IF nxt < max_retries
       THEN /\ attempt' = nxt
            /\ wpc' = "generate"
            /\ UNCHANGED ret
       ELSE /\ wpc' = "returned"
            /\ ret' = ExhaustedReturn(lc, lr)
            /\ UNCHANGED attempt

\* the body of the for loop ended without return: next attempt, or the
\* return after the loop
EndOfIteration(lc, lr) ==
    IF attempt + 1 < max_retries
    THEN /\ attempt' = attempt + 1
         /\ wpc' = "generate"
         /\ UNCHANGED ret
    ELSE /\ wpc' = "returned"
         /\ ret' = ExhaustedReturn(lc, lr)
         /\ UNCHANGED attempt

\* the except clause of the loop body
ExceptClause(lc, lr) ==
    IF ExceptContinues(attempt)
    THEN /\ ui_errors' = show_error(ui_errors)
         /\ attempt' = attempt + 1
         /\ wpc' = "generate"
         /\ UNCHANGED ret
    ELSE /\ wpc' = "returned"
         /\ ret' = ExceptReturn(lc, lr, attempt)
         /\ UNCHANGED <<attempt, ui_errors>>

RetryInit ==
    /\ max_retries \in 1..MaxRetries
    /\ wpc = "ready"
    /\ attempt = 0
    /\ code = NoCode
    /\ last_code = NoCode
    /\ last_result = None
    /\ error_feedback = None
    /\ thinking_result = None
    /\ ret = None
    /\ turns = <<>>
    /\ asked = 0
    /\ aq_return = FALSE
    /\ gen_calls = 0
    /\ deep_calls = 0
    /\ exec_calls = 0
    /\ h_last_exec = None
    /\ h_last_primary = None
    /\ h_gen0_failed = FALSE
    /\ h_exec_raised = FALSE
    /\ h_ends = "none"
    /\ ui_errors = 0
    /\ h_explain_failed = FALSE
    /\ h_failures = 0
    /\ h_stages = <<"end">>
    /\ AuxIdle
    \* the sandbox is represented by ExecOutcomes in this specification
    /\ hasSIGALRM = TRUE
    /\ globals_dict = init_globals
    /\ spc = "idle"
    /\ alarm = "off"
    /\ NoCall

\* analyze_question up to the first loop iteration
AskQuestion ==
    /\ wpc = "ready"
    /\ h_stages' = AskStages
    /\ asked < MaxQuestions
    /\ asked' = asked + 1
    /\ error_feedback' = None
    /\ last_code' = NoCode
    /\ last_result' = None
    /\ attempt' = 0
    /\ wpc' = "generate"
    /\ UNCHANGED <<max_retries, code, thinking_result, ret, turns, aq_return, h_explain_failed,
                   gen_calls, deep_calls, exec_calls, h_last_exec,
                   h_last_primary, h_gen0_failed, h_exec_raised, h_ends,
                   ui_errors, h_failures>>
    /\ UNCHANGED <<sandboxVars, auxVars>>

\* self.llm.generate_code(...) returns a code string
GenerateCode ==
    /\ wpc = "generate"
    /\ h_stages' = <<"generation">>
    /\ gen_calls' = gen_calls + 1
    /\ \E c \in Codes :
          /\ code' = c
          /\ last_code' = c
    /\ wpc' = "execute"
    /\ UNCHANGED <<max_retries, attempt, last_result, error_feedback,
                   thinking_result, ret, turns, asked, aq_return, h_explain_failed, deep_calls,
                   exec_calls, h_last_exec, h_last_primary, h_gen0_failed,
                   h_exec_raised, h_ends, ui_errors, h_failures>>
    /\ UNCHANGED <<sandboxVars, auxVars>>

\* self.llm.generate_code(...) raises
GenerateCodeFails ==
    /\ wpc = "generate"
    /\ h_stages' = <<"generation">>
    /\ gen_calls' = gen_calls + 1
    /\ h_gen0_failed' = (h_gen0_failed \/ attempt = 0)
    /\ h_ends' = "generation_failed"
    /\ h_failures' = h_failures + 1
    /\ ExceptClause(last_code, last_result)
    /\ UNCHANGED <<max_retries, code, last_code, last_result, error_feedback,
                   thinking_result, turns, asked, aq_return, h_explain_failed, deep_calls,
                   exec_calls, h_last_exec, h_last_primary, h_exec_raised>>
    /\ UNCHANGED <<sandboxVars, auxVars>>

\* result = self.executor.execute(code) and the rest of the body up to the
\* deep-analysis call
ExecuteCode ==
    /\ wpc = "execute"
    /\ exec_calls' = exec_calls + 1
    /\ \E result \in ExecOutcomes :
          /\ h_stages' = ExecuteStages(result)
          /\ last_result' = result
          /\ h_last_exec' = [code |-> code, outcome |-> result, candidate |-> FALSE]
          /\ h_last_primary' = [code |-> code, outcome |-> result]
          /\ IF result.success
             THEN /\ ret' = SuccessReturn(code, result, last_code, attempt)
                  /\ wpc' = "returned"
                  /\ h_ends' = "succeeded"
                  /\ UNCHANGED <<attempt, error_feedback, ui_errors, h_failures>>
             ELSE /\ error_feedback' = ErrorFeedback(code, result)
                  /\ ui_errors' = show_error(ui_errors)
                  /\ h_failures' = h_failures + 1
                  /\ h_ends' = "execution_failed"
                  /\ IF DeepAnalysisDue(attempt)
                     THEN /\ wpc' = "deep"
                          /\ UNCHANGED <<attempt, ret>>
                     ELSE EndOfIteration(last_code, result)
    /\ UNCHANGED <<max_retries, code, last_code, thinking_result, turns,
                   asked, aq_return, h_explain_failed, gen_calls, deep_calls, h_gen0_failed,
                   h_exec_raised>>
    /\ UNCHANGED <<sandboxVars, auxVars>>

\* self.executor.execute(code) raises (the TimeoutError of a late alarm)
ExecuteCodeRaises ==
    /\ wpc = "execute"
    /\ h_stages' = <<"policy", "execution">>
    /\ exec_calls' = exec_calls + 1
    /\ h_ends' = "execute_raised"
    /\ h_exec_raised' = TRUE
    /\ h_failures' = h_failures + 1
    /\ ExceptClause(last_code, last_result)
    /\ UNCHANGED <<max_retries, code, last_code, last_result, error_feedback,
                   thinking_result, turns, asked, aq_return, h_explain_failed, gen_calls,
                   deep_calls, h_last_exec, h_last_primary, h_gen0_failed>>
    /\ UNCHANGED <<sandboxVars, auxVars>>

\* thinking_result = self.async_error_analyzer.analyze_error_with_thinking(...)
DeepAnalysis ==
    /\ wpc = "deep"
    /\ h_stages' = <<"deep_analysis">>
    /\ deep_calls' = deep_calls + 1
    /\ \E tr \in ThinkingResults :
          /\ thinking_result' = tr
          /\ IF ThinkingUsable(tr)
             THEN /\ wpc' = "deep_execute"
                  /\ UNCHANGED <<attempt, ret, h_failures>>
             ELSE /\ h_failures' = h_failures + 1
                  /\ EndOfIteration(last_code, last_result)
    /\ UNCHANGED <<max_retries, code, last_code, last_result, error_feedback,
                   turns, asked, aq_return, h_explain_failed, gen_calls, exec_calls,
                   h_last_exec, h_last_primary, h_gen0_failed, h_exec_raised,
                   h_ends, ui_errors>>
    /\ UNCHANGED <<sandboxVars, auxVars>>

\* thinking_exec_result = self.executor.execute(thinking_result['code'])
ExecuteCandidate ==
    /\ wpc = "deep_execute"
    /\ exec_calls' = exec_calls + 1
    /\ \E result \in ExecOutcomes :
          /\ h_stages' = ExecuteStages(result)
          /\ h_last_exec' = [code |-> thinking_result.code, outcome |-> result,
                             candidate |-> TRUE]
          /\ IF result.success
             THEN /\ ret' = ThinkingReturn(thinking_result.code, result,
                                           last_code, attempt)
                  /\ wpc' = "returned"
                  /\ h_ends' = "succeeded"
                  /\ UNCHANGED <<attempt, last_code, last_result, ui_errors,
                                 h_failures>>
             ELSE /\ ui_errors' = show_error(ui_errors)
                  /\ h_failures' = h_failures + 1
                  /\ last_code' = CandidateKeeps(last_code, thinking_result.code)
                  /\ last_result' = CandidateKeeps(last_result, result)
                  /\ h_ends' = "candidate_failed"
                  /\ EndOfIteration(last_code', last_result')
    /\ UNCHANGED <<max_retries, code, error_feedback, thinking_result, turns,
                   asked, aq_return, h_explain_failed, gen_calls, deep_calls, h_last_primary,
                   h_gen0_failed, h_exec_raised>>
    /\ UNCHANGED <<sandboxVars, auxVars>>

\* self.executor.execute(thinking_result['code']) raises
ExecuteCandidateRaises ==
    /\ wpc = "deep_execute"
    /\ h_stages' = <<"policy", "execution">>
    /\ exec_calls' = exec_calls + 1
    /\ h_ends' = "execute_raised"
    /\ h_exec_raised' = TRUE
    /\ h_failures' = h_failures + 1
    /\ ExceptClause(last_code, last_result)
    /\ UNCHANGED <<max_retries, code, last_code, last_result, error_feedback,
                   thinking_result, turns, asked, aq_return, h_explain_failed, gen_calls,
                   deep_calls, h_last_exec, h_last_primary, h_gen0_failed>>
    /\ UNCHANGED <<sandboxVars, auxVars>>

-----------------------------------------------------------------------------
(* AnalysisWorkflow.analyze_question, after the loop *)

\* explanation = "(explanation failed)" of the except clause
ExplanationPlaceholder == "placeholder"

\* analyze_question returns: the locals of the call go out of scope
LocalsDiscarded ==
    /\ wpc' = "ready"
    /\ attempt' = 0
    /\ code' = NoCode
    /\ last_code' = NoCode
    /\ last_result' = None
    /\ error_feedback' = None
    /\ thinking_result' = None
    /\ ret' = None
    /\ gen_calls' = 0
    /\ deep_calls' = 0
    /\ exec_calls' = 0
    /\ h_last_exec' = None
    /\ h_last_primary' = None
    /\ h_gen0_failed' = FALSE
    /\ h_exec_raised' = FALSE
    /\ h_ends' = "none"
    /\ ui_errors' = 0
    /\ h_failures' = 0

\* explain_result returned, or raised and the except clause put the
\* placeholder in its place
Explanation(explained) ==
    IF explained THEN "explanation" ELSE ExplanationPlaceholder

\* a return value that reports a cycle without explanation as failed
AnalyzeQuestionReturnNeedsExplanation(result, explained) ==
    explained /\ Get(result, "success", FALSE)

\* return result.get('success', False)
AnalyzeQuestionReturn(result, explained) == Get(result, "success", FALSE)

\* if result is None: show_error; return False
FinishWithoutResult ==
    /\ wpc = "returned"
    /\ h_stages' = <<"end">>
    /\ ret.result = None
    /\ aq_return' = FALSE
    /\ LocalsDiscarded
    /\ UNCHANGED <<max_retries, turns, asked, h_explain_failed>>
    /\ UNCHANGED <<sandboxVars, auxVars>>

\* the plot check, the explanation, add_turn, and the return value
\* (session.save() writes the session file, which is no part of this state,
\* and its failure is caught and logged)
FinishWithTurn ==
    /\ wpc = "returned"
    /\ h_stages' = FinishStages
    /\ ret.result # None
    /\ \E plot_exists \in BOOLEAN, explained \in BOOLEAN :
          LET shown == IF plot_exists
                       THEN [k \in DOMAIN ret.result \cup {"plot_saved", "plot_path"} |->
                               CASE k = "plot_saved" -> TRUE
                                 [] k = "plot_path" -> <<"plot", asked>>
                                 [] OTHER -> ret.result[k]]
                       ELSE [k \in DOMAIN ret.result \cup {"plot_saved"} |->
                               IF k = "plot_saved" THEN FALSE ELSE ret.result[k]]
              turn == [timestamp |-> asked,
                       question |-> asked,
                       code |-> ret.code,
                       execution_result |-> shown,
                       explanation |-> Explanation(explained),
                       retry_count |-> ret.retry_count,
                       plot_path |-> IF plot_exists THEN <<"plot", asked>> ELSE <<>>]
          IN /\ turns' = Append(turns, turn)
             /\ aq_return' = AnalyzeQuestionReturn(shown, explained)
             /\ h_explain_failed' = ~explained
    /\ LocalsDiscarded
    /\ UNCHANGED <<max_retries, asked>>
    /\ UNCHANGED <<sandboxVars, auxVars>>

RetryNext ==
    \/ AskQuestion
    \/ GenerateCode
    \/ GenerateCodeFails
    \/ ExecuteCode
    \/ ExecuteCodeRaises
    \/ DeepAnalysis
    \/ ExecuteCandidate
    \/ ExecuteCandidateRaises
    \/ FinishWithoutResult
    \/ FinishWithTurn

RetrySpec == RetryInit /\ [][RetryNext]_vars

\* C19: reset() restores the capability handles and the builtin allow-list
\* to their initial values, discards every other binding earlier
\* submissions created, and leaves the dataset bound before the reset bound
\* to the same dataset afterwards.
C19_ResetRestoresNamespace ==
    [][Reset =>
          /\ \A n \in CapabilityHandles \cup {"__builtins__"} :
                /\ n \in DOMAIN globals_dict'
                /\ globals_dict'[n] = init_globals[n]
          /\ DOMAIN globals_dict' \subseteq DOMAIN init_globals \cup {"df"}
          /\ "df" \in DOMAIN globals_dict =>
                /\ "df" \in DOMAIN globals_dict'
                /\ globals_dict'["df"] = globals_dict["df"]
          /\ "df" \notin DOMAIN globals_dict => "df" \notin DOMAIN globals_dict']_vars

\* a reset ran on a namespace in which a submission had rebound a capability
\* handle and bound a name of its own, and a dataset was bound
C19_Witness ==
    /\ h_path = "reset"
    /\ h_before["pd"] # init_globals["pd"]
    /\ "x" \in DOMAIN h_before
    /\ "df" \in DOMAIN h_before
    /\ globals_dict = Bind(init_globals, "df", h_before["df"])

-----------------------------------------------------------------------------
(* Claims about the retry loop *)

\* the retry loop has returned a successful outcome
Succeeded ==
    /\ wpc = "returned"
    /\ ret # None
    /\ Get(ret.result, "success", FALSE)

\* the retry loop has returned without a successful outcome
Failed ==
    /\ wpc = "returned"
    /\ ret # None
    /\ ~Get(ret.result, "success", FALSE)

\* the step in which generate_code raises: the loop leaves its generation
\* call without a code to execute
GenerationFailureStep ==
    /\ wpc = "generate"
    /\ wpc' \in {"generate", "returned"}

\* C7: whenever the retry loop ends in Succeeded, the returned code is the
\* submission whose execution produced the returned successful outcome and
\* retry_count is the index of the attempt in progress; when that execution
\* was the deep-analysis candidate's, retry_count is 0.
C7_SuccessReturnsWinningSubmission ==
    Succeeded =>
        /\ h_last_exec # None
        /\ ret.code = h_last_exec.code
        /\ ret.result = h_last_exec.outcome
        /\ ret.retry_count = attempt
        /\ h_last_exec.candidate =>
              /\ ret.retry_count = 0
              /\ ret.code = thinking_result.code

\* attempt 0 failed and a deep-analysis candidate different from the
\* primary code then executed successfully
C7_Witness ==
    /\ Succeeded
    /\ h_last_exec.candidate
    /\ h_last_primary # None
    /\ ~h_last_primary.outcome.success
    /\ ret.code # last_code

\* every attempt of the question failed by an execution failure or, after
\* attempt 0, by a generation failure
AllAttemptsFailed ==
    /\ Failed
    /\ ~h_gen0_failed
    /\ ~h_exec_raised

\* C8: whenever all max_retries attempts of a question fail, the loop ends
\* in Failed, the reported retry_count equals max_retries and no generation
\* call beyond the max_retries attempts has been issued.
C8_ExhaustionReportsMaxRetries ==
    AllAttemptsFailed =>
        /\ ret.retry_count = max_retries
        /\ gen_calls = max_retries

C9_FatalOnlyWithoutRetries ==
    (h_gen0_failed /\ max_retries = 1) =>
        /\ wpc = "returned"
        /\ ret = Return3(NoCode, None, 0)
        /\ gen_calls = 1
        /\ exec_calls = 0
        /\ deep_calls = 0

\* a generation failure on attempt 0 makes no execution or deep-analysis
\* call, and with max_retries > 1 the loop goes on to attempt 1 with no
\* error feedback and nothing retained
C9_FirstGenerationFailureStep ==
    (GenerationFailureStep /\ attempt = 0) =>
        /\ gen_calls' = 1
        /\ exec_calls' = 0
        /\ deep_calls' = 0
        /\ IF max_retries = 1
           THEN /\ wpc' = "returned"
                /\ ret' = Return3(NoCode, None, 0)
           ELSE /\ wpc' = "generate"
                /\ attempt' = 1
                /\ error_feedback' = None
                /\ last_code' = NoCode
                /\ last_result' = None

C10_LastExecutionRetained ==
    (h_ends = "generation_failed" /\ ~h_exec_raised /\ h_last_exec # None) =>
        /\ last_code = h_last_exec.code
        /\ last_result = h_last_exec.outcome

\* the retained code is the most recently generated primary/fix code, the
\* retained outcome is the one of the most recent primary/fix execution that
\* returned, and they are what a Failed loop reports
C10_RetainedIsLastPrimary ==
    /\ wpc # "ready" =>
          /\ last_code = code
          /\ last_result = IF h_last_primary = None THEN None
                           ELSE h_last_primary.outcome
    /\ Failed =>
          /\ ret.code = last_code
          /\ ret.result = last_result

\* a generation failure on an attempt k >= 1 makes no execution, leaves
\* what is retained unchanged and moves to attempt k+1 or returns
C10_LaterGenerationFailureStep ==
    (GenerationFailureStep /\ attempt >= 1) =>
        /\ exec_calls' = exec_calls
        /\ deep_calls' = deep_calls
        /\ last_code' = last_code
        /\ last_result' = last_result
        /\ IF attempt + 1 < max_retries
           THEN /\ wpc' = "generate"
                /\ attempt' = attempt + 1
           ELSE /\ wpc' = "returned"
                /\ ret'.code = last_code
                /\ ret'.result = last_result

\* C10 (amended): a generation failure on an attempt k >= 1 consumes that
\* attempt without any execution, the loop proceeds to attempt k+1 when
\* k+1 < max_retries, and the retained code and outcome are unchanged and
\* are what is reported if no later attempt succeeds; they are the most
\* recently generated primary/fix code and the outcome of the most recent
\* primary/fix execution, never those of the deep-analysis candidate.
C10_GenerationFailureKeepsLastPrimary ==
    /\ []C10_RetainedIsLastPrimary
    /\ [][C10_LaterGenerationFailureStep]_vars

\* generation failed on an attempt k >= 1 right after a failed
\* deep-analysis candidate, whose code and outcome differ from the retained
C10_Witness ==
    /\ h_ends = "generation_failed"
    /\ attempt >= 1
    /\ h_last_exec # None
    /\ h_last_exec.candidate
    /\ h_last_exec.code # last_code
    /\ h_last_exec.outcome # last_result

\* C11: every failed attempt of a question (execution failure, generation
\* failure on any attempt, a deep-analysis fallback that fails to execute or
\* yields no usable code) has been reported through ui.show_error by the
\* time the next attempt begins or the loop returns.
C11_EveryFailureIsShown ==
    (wpc \in {"generate", "returned"} /\ ~h_exec_raised) =>
        ui_errors = h_failures

-----------------------------------------------------------------------------
(* ConversationCompactor *)

\* no execute() call and no question is in progress
SandboxIdle ==
    /\ hasSIGALRM = TRUE
    /\ globals_dict = init_globals
    /\ spc = "idle"
    /\ alarm = "off"
    /\ NoCall

\* what the rules of _extract_key_information see in a history dict: a
\* decision keyword, code longer than 50 characters with a key line, a
\* finding keyword, and result.get('success')
TurnKinds ==
    {[decision |-> FALSE, key_code |-> FALSE, finding |-> FALSE, success |-> TRUE],
     [decision |-> FALSE, key_code |-> TRUE, finding |-> FALSE, success |-> FALSE],
     [decision |-> TRUE, key_code |-> TRUE, finding |-> TRUE, success |-> TRUE]}

\* the dict of one turn; its question tells the turns of a history apart
TurnDict(i, kind) ==
    [question |-> <<"question", i>>,
     code |-> <<"code", kind.key_code>>,
     result |-> [success |-> kind.success],
     explanation |-> [decision |-> kind.decision, finding |-> kind.finding]]

\* the histories handed to compact()
Histories ==
    UNION {{[i \in 1..n |-> TurnDict(i, kinds[i])] : kinds \in [1..n -> TurnKinds]} :
            n \in 0..MaxHistory}

\* Python's -k
Neg(k) == 0 - k

\* the position a slice bound i denotes in a list of length n
SliceIndex(i, n) ==
    IF i < 0
    THEN IF n + i < 0 THEN 0 ELSE n + i
    ELSE IF i > n THEN n ELSE i

\* lst[:stop]
SliceTo(lst, stop) == SubSeq(lst, 1, SliceIndex(stop, Len(lst)))

\* lst[start:]
SliceFrom(lst, start) == SubSeq(lst, SliceIndex(start, Len(lst)) + 1, Len(lst))

\* the turn numbers i + 1 of the turns of lst that satisfy the rule
RECURSIVE Matching(_, _, _)
Matching(lst, field, i) ==
    IF i > Len(lst) THEN <<>>
    ELSE (IF (IF field = "error" THEN ~lst[i].result.success
              ELSE IF field = "code" THEN lst[i].code[2]
              ELSE lst[i].explanation[field])
          THEN <<i>> ELSE <<>>) \o Matching(lst, field, i + 1)

\* _extract_key_information(history)
extract_key_information(lst) ==
    [important_decisions |-> Matching(lst, "decision", 1),
     code_changes |-> Matching(lst, "code", 1),
     errors_encountered |-> Matching(lst, "error", 1),
     key_findings |-> Matching(lst, "finding", 1)]

\* a summary that lists every item found
create_summary_uncapped(key_info) ==
    [decisions |-> key_info.important_decisions,
     code_changes |-> key_info.code_changes,
     errors |-> key_info.errors_encountered,
     findings |-> key_info.key_findings]

\* _create_summary(key_info, None): the items listed under each heading
create_summary(key_info) ==
    [decisions |-> SliceTo(key_info.important_decisions, 5),
     code_changes |-> SliceTo(key_info.code_changes, 5),
     errors |-> SliceTo(key_info.errors_encountered, 3),
     findings |-> SliceTo(key_info.key_findings, 5)]

\* the fixed question of the summary turn
SummaryMarker == <<"summary marker">>

\* the summary dict compact() puts first
SummaryTurn(summary) ==
    [question |-> SummaryMarker,
     code |-> <<>>,
     result |-> [success |-> TRUE, stdout |-> <<>>],
     explanation |-> summary]

\* to_compress = history[:-self.keep_recent]
to_compress(lst, k) == SliceTo(lst, Neg(k))

\* to_keep = history[-self.keep_recent:]
to_keep(lst, k) == SliceFrom(lst, Neg(k))

\* compact(history)
compact(lst, k) ==
    IF Len(lst) <= k
    THEN lst
    ELSE <<SummaryTurn(create_summary(extract_key_information(to_compress(lst, k))))>>
            \o to_keep(lst, k)

CompactInit ==
    /\ keep_recent \in 0..MaxKeep
    /\ history \in Histories
    /\ compacted = <<>>
    /\ cpc = "input"
    /\ RetryIdle
    /\ SandboxIdle
    /\ EstimateIdle
    /\ BudgetIdle
    /\ StoreIdle
    /\ ContextIdle
    /\ SessionIdle
    /\ AsyncIdle

\* compacted = self.compactor.compact(history)
Compact ==
    /\ cpc = "input"
    /\ compacted' = compact(history, keep_recent)
    /\ cpc' = "done"
    /\ UNCHANGED <<keep_recent, history>>
    /\ UNCHANGED <<sandboxVars, retryVars, estimateVars, budgetVars, storeVars,
                   contextVars,
                   sessionVars, asyncVars>>

CompactNext ==
    \/ Compact

CompactSpec == CompactInit /\ [][CompactNext]_vars

-----------------------------------------------------------------------------
(* Claims about compact *)

\* C12: compact returns the history unchanged when len(history) <=
\* keep_recent, and for every longer history and every keep_recent >= 0 it
\* returns exactly keep_recent + 1 turns.
C12_CompactedLength ==
    cpc = "done" =>
        IF Len(history) <= keep_recent
        THEN compacted = history
        ELSE Len(compacted) = keep_recent + 1

\* C13: when compaction occurs the result is one summary turn (marker
\* question, empty code, trivially successful outcome) followed by the last
\* keep_recent turns of the input, in order and unmodified, and no turn of
\* the compressed prefix appears in the result.
C13_SummaryThenRecentTurns ==
    (cpc = "done" /\ Len(history) > keep_recent) =>
        /\ compacted[1].question = SummaryMarker
        /\ compacted[1].code = <<>>
        /\ compacted[1].result = [success |-> TRUE, stdout |-> <<>>]
        /\ Tail(compacted) =
              SubSeq(history, Len(history) - keep_recent + 1, Len(history))
        /\ \A i \in 1..(Len(history) - keep_recent) :
              \A j \in 1..Len(compacted) : compacted[j] # history[i]

-----------------------------------------------------------------------------
(* TokenCounter.estimate_tokens *)

\* a character in the range '一'..'鿿'
WideChar == "W"

\* code_indicators
code_indicators ==
    {<<"d", "e", "f", " ">>,
     <<"i", "m", "p", "o", "r", "t", " ">>,
     <<"p", "r", "i", "n", "t", "(">>,
     <<"i", "f", " ">>,
     <<"f", "o", "r", " ">>,
     <<"w", "h", "i", "l", "e", " ">>}

\* sum(1 for c in text if '一' <= c <= '鿿')
RECURSIVE chinese_count(_)
chinese_count(s) ==
    IF s = <<>> THEN 0
    ELSE (IF Head(s) = WideChar THEN 1 ELSE 0) + chinese_count(Tail(s))

\* s[i : i + len(needle)] == needle
MatchesAt(s, needle, i) ==
    /\ i + Len(needle) - 1 <= Len(s)
    /\ SubSeq(s, i, i + Len(needle) - 1) = needle

\* str.count(needle): the non-overlapping occurrences from position i on
RECURSIVE CountFrom(_, _, _)
CountFrom(s, needle, i) ==
    IF i + Len(needle) - 1 > Len(s) THEN 0
    ELSE IF MatchesAt(s, needle, i) THEN 1 + CountFrom(s, needle, i + Len(needle))
    ELSE CountFrom(s, needle, i + 1)

\* sum(text.count(indicator) for indicator in code_indicators)
RECURSIVE SumCounts(_, _)
SumCounts(s, inds) ==
    IF inds = {} THEN 0
    ELSE LET ind == CHOOSE x \in inds : TRUE
         IN CountFrom(s, ind, 1) + SumCounts(s, inds \ {ind})

code_density(s) == SumCounts(s, code_indicators)

\* is_code_heavy = code_density > 5
is_code_heavy(s) == code_density(s) > 5

\* the weight of a non-Chinese character, in hundredths: 0.4 in code-dense
\* text, 0.25 in prose
WeightSwapped(heavy) == IF heavy THEN 25 ELSE 40
Weight(heavy) == IF heavy THEN 40 ELSE 25

\* estimate_tokens(text); int() of a non-negative value is its floor
estimate_tokens(s) ==
    IF s = <<>> THEN 0
    ELSE LET cn == chinese_count(s)
             en == Len(s) - cn
         IN (150 * cn + Weight(is_code_heavy(s)) * en) \div 100

\* what a text is extended by: a wide character, a narrow character, or
\* a code indicator
Pieces == {<<WideChar>>, <<"x">>, <<"i", "f", " ">>}

\* the pieces the text was built from
RECURSIVE PieceCount(_)
PieceCount(s) ==
    IF s = <<>> THEN 0
    ELSE (IF Head(s) \in {"f", " "} THEN 0 ELSE 1) + PieceCount(Tail(s))

EstimateInit ==
    /\ est_text = <<>>
    /\ estimated = estimate_tokens(<<>>)
    /\ RetryIdle
    /\ SandboxIdle
    /\ CompactIdle
    /\ BudgetIdle
    /\ StoreIdle
    /\ ContextIdle
    /\ SessionIdle
    /\ AsyncIdle

\* estimate_tokens is called on the text extended by one more piece
EstimateExtended ==
    /\ PieceCount(est_text) < MaxPieces
    /\ \E piece \in Pieces :
          /\ est_text' = est_text \o piece
          /\ estimated' = estimate_tokens(est_text')
    /\ UNCHANGED <<sandboxVars, retryVars, compactVars, budgetVars, storeVars,
                   contextVars,
                   sessionVars, asyncVars>>

EstimateNext ==
    \/ EstimateExtended

EstimateSpec == EstimateInit /\ [][EstimateNext]_vars

-----------------------------------------------------------------------------
(* Claims about estimate_tokens *)

\* the text is followed by more characters
IsExtension ==
    /\ Len(est_text') > Len(est_text)
    /\ SubSeq(est_text', 1, Len(est_text)) = est_text

\* C15: extending a text with more characters never yields a smaller
\* estimate, including across the switch from the prose weight to the
\* code-dense weight.
C15_EstimateMonotone ==
    [][IsExtension => estimated' >= estimated]_vars

\* a text just past the switch to the code-dense weight, with wide and
\* narrow characters in it
C15_Witness ==
    /\ is_code_heavy(est_text)
    /\ code_density(est_text) = 6
    /\ chinese_count(est_text) >= 1
    /\ estimated >= 1

-----------------------------------------------------------------------------
(* TokenCounter: safe ceiling, should_compact, get_context_window_status *)

\* MODEL_MAX_TOKENS
MODEL_MAX_TOKENS == 128000

\* DEFAULT_THRESHOLD, in hundredths
DEFAULT_THRESHOLD == 70

\* the model_max_tokens arguments of the constructor; 0 stands for None
ModelMaxArgs == {0, 10, 30}

\* the compression_threshold arguments, in hundredths; 0 stands for None
ThresholdArgs == {0, 50, 100}

\* model_max_tokens or self.MODEL_MAX_TOKENS
OrDefault(arg, default) == IF arg = 0 THEN default ELSE arg

\* int(self.model_max_tokens * self.compression_threshold)
SafeCeiling(max_tokens, threshold) == (max_tokens * threshold) \div 100

\* the totals handed to the budget functions: small ones, and the ones
\* around the default safe ceiling
Totals ==
    (0..MaxTotal)
        \cup {SafeCeiling(MODEL_MAX_TOKENS, DEFAULT_THRESHOLD) + d : d \in {0 - 1, 0, 1}}

\* total_tokens >= self.safe_max_tokens
should_compact_strict(total) == total > safe_max_tokens
should_compact(total) == total >= safe_max_tokens

\* usage_pct = (total_tokens / self.safe_max_tokens) * 100, as a fraction
usage_pct(total) == [num |-> total * 100, den |-> safe_max_tokens]

\* a comparison that leaves the boundary out
AtLeastStrict(usage, percent) == usage.num > percent * usage.den

\* usage_pct >= percent, for a positive safe ceiling
AtLeast(usage, percent) == usage.num >= percent * usage.den

\* the if / elif chain of get_context_window_status
StatusOfWarningFirst(usage) ==
    IF AtLeast(usage, 80) THEN "warning"
    ELSE IF AtLeast(usage, 100) THEN "critical"
    ELSE IF AtLeast(usage, 50) THEN "normal"
    ELSE "healthy"
StatusOf(usage) ==
    IF AtLeast(usage, 100) THEN "critical"
    ELSE IF AtLeast(usage, 80) THEN "warning"
    ELSE IF AtLeast(usage, 50) THEN "normal"
    ELSE "healthy"

\* get_context_window_status(total_tokens)
get_context_window_status(total) ==
    [total_tokens |-> total,
     max_tokens |-> safe_max_tokens,
     remaining_tokens |-> safe_max_tokens - total,
     usage_percentage |-> usage_pct(total),
     status |-> StatusOf(usage_pct(total)),
     should_compact |-> should_compact(total)]

\* TokenCounter(model_max_tokens, compression_threshold)
BudgetInit ==
    /\ \E m_arg \in ModelMaxArgs, t_arg \in ThresholdArgs :
          /\ model_max_tokens = OrDefault(m_arg, MODEL_MAX_TOKENS)
          /\ compression_threshold = OrDefault(t_arg, DEFAULT_THRESHOLD)
    /\ safe_max_tokens = SafeCeiling(model_max_tokens, compression_threshold)
    /\ budget_call = [none |-> TRUE]
    /\ RetryIdle
    /\ SandboxIdle
    /\ CompactIdle
    /\ EstimateIdle
    /\ StoreIdle
    /\ ContextIdle
    /\ SessionIdle
    /\ AsyncIdle

\* should_compact(total_tokens)
ShouldCompact ==
    /\ \E total \in Totals :
          budget_call' = [op |-> "should_compact", total |-> total,
                          result |-> should_compact(total)]
    /\ UNCHANGED <<model_max_tokens, compression_threshold, safe_max_tokens>>
    /\ UNCHANGED <<sandboxVars, retryVars, compactVars, estimateVars, storeVars,
                   contextVars,
                   sessionVars, asyncVars>>

\* get_context_window_status(total_tokens)
GetContextWindowStatus ==
    /\ \E total \in Totals :
          budget_call' = [op |-> "get_context_window_status", total |-> total,
                          result |-> get_context_window_status(total)]
    /\ UNCHANGED <<model_max_tokens, compression_threshold, safe_max_tokens>>
    /\ UNCHANGED <<sandboxVars, retryVars, compactVars, estimateVars, storeVars,
                   contextVars,
                   sessionVars, asyncVars>>

BudgetNext ==
    \/ ShouldCompact
    \/ GetContextWindowStatus

BudgetSpec == BudgetInit /\ [][BudgetNext]_vars

-----------------------------------------------------------------------------
(* Claims about the budget *)

\* the last call was op
Called(op) == budget_call # [none |-> TRUE] /\ budget_call.op = op

\* model_max_tokens * threshold_ratio, in hundredths
ExactProduct == model_max_tokens * compression_threshold

\* n = floor(model_max_tokens * threshold_ratio)
IsFloorOfProduct(n) == 100 * n <= ExactProduct /\ ExactProduct < 100 * (n + 1)

C20_StatusClassification ==
    Called("get_context_window_status") =>
        LET total == budget_call.total
            status == budget_call.result.status
        IN /\ status \in {"critical", "warning", "normal", "healthy"}
           /\ status = "critical" <=> total >= safe_max_tokens
           /\ status = "warning" <=>
                 (5 * total >= 4 * safe_max_tokens /\ total < safe_max_tokens)
           /\ status = "normal" <=>
                 (2 * total >= safe_max_tokens /\ 5 * total < 4 * safe_max_tokens)
           /\ status = "healthy" <=> 2 * total < safe_max_tokens

\* a total at exactly 80% of the safe ceiling was classified
C20_Witness ==
    /\ Called("get_context_window_status")
    /\ budget_call.total > 0
    /\ 5 * budget_call.total = 4 * safe_max_tokens
    /\ budget_call.result.status = "warning"

\* the step that ends a question cycle whose retry loop returned a result:
\* the explanation call, add_turn and the return of analyze_question
CycleCompletes ==
    /\ wpc = "returned"
    /\ ret.result # None
    /\ wpc' = "ready"

\* C17: a failure of the explanation service is not fatal.  The question
\* cycle still completes, exactly one turn is appended, that turn carries the
\* placeholder explanation with the code, the outcome and the retry_count
\* the retry loop returned, and analyze_question returns what it returns
\* when the explanation succeeds: the success flag of the outcome.
C17_ExplanationFailureNotFatal ==
    [][(wpc = "returned" /\ ret.result # None) =>
          /\ CycleCompletes
          /\ Len(turns') = Len(turns) + 1
          /\ SubSeq(turns', 1, Len(turns)) = turns
          /\ LET turn == turns'[Len(turns')]
             IN /\ turn.code = ret.code
                /\ turn.retry_count = ret.retry_count
                /\ \A k \in DOMAIN ret.result :
                      turn.execution_result[k] = ret.result[k]
                /\ h_explain_failed' =>
                      turn.explanation = ExplanationPlaceholder
          /\ aq_return' = ret.result.success]_vars

\* a cycle whose outcome was successful ended with a failed explanation
C17_Witness ==
    /\ wpc = "ready"
    /\ h_explain_failed
    /\ Len(turns) = 1
    /\ turns[1].explanation = ExplanationPlaceholder
    /\ turns[1].execution_result.success
    /\ aq_return

\* C21: the deep-analysis fallback is called only after the execution of
\* attempt 0 has failed, and at most once per question: never after a
\* success, never after a generation failure, never on an attempt >= 1.
C21_DeepAnalysisOnlyAfterFirstFailure ==
    [][deep_calls' > deep_calls =>
          /\ deep_calls = 0
          /\ attempt = 0
          /\ h_ends = "execution_failed"
          /\ h_last_exec # None
          /\ ~h_last_exec.candidate
          /\ ~h_last_exec.outcome.success
          /\ exec_calls = 1
          /\ gen_calls = 1]_vars

\* the question went on to attempt 2 with one deep-analysis call made
C21_Witness ==
    /\ wpc = "generate"
    /\ attempt = 2
    /\ deep_calls = 1
    /\ exec_calls >= 3

\* C22: a deep-analysis candidate that fails does not use up a retry slot:
\* a question that never succeeds has made max_retries generation calls,
\* whether or not the fallback ran and however it ended.
C22_FallbackUsesNoRetrySlot ==
    Failed => gen_calls = max_retries

\* the fallback's candidate was executed and failed, and so did every attempt
C22_Witness ==
    /\ Failed
    /\ max_retries >= 2
    /\ deep_calls = 1
    /\ ThinkingUsable(thinking_result)
    /\ gen_calls = max_retries

\* C23 as stated: on every attempt >= 1, and only there, the generation call
\* carries error feedback, taken from the most recent failed execution.
C23_LaterAttemptsSeededByLastExecution ==
    wpc = "generate" =>
        /\ (attempt = 0) <=> (error_feedback = None)
        /\ attempt >= 1 =>
              /\ h_last_exec # None
              /\ error_feedback.code = h_last_exec.code
              /\ error_feedback.error_message = h_last_exec.outcome.error

\* C23: the generation call of attempt 0 carries no error feedback.  On an
\* attempt >= 1 it carries the feedback (prior code, error kind, error
\* message, traceback) of the most recent failed execution of a primary or
\* fix submission of this question when there is one, and no feedback when
\* every earlier attempt ended before its execution returned; the execution
\* of a deep-analysis candidate never supplies the feedback.
C23_LaterAttemptsSeededByLastPrimary ==
    wpc = "generate" =>
        /\ attempt = 0 => error_feedback = None
        /\ (error_feedback = None) <=> (h_last_primary = None)
        /\ h_last_primary # None =>
              /\ ~h_last_primary.outcome.success
              /\ error_feedback.code = h_last_primary.code
              /\ error_feedback.code # NoCode
              /\ error_feedback.error_type = h_last_primary.outcome.error_type
              /\ error_feedback.error_message = h_last_primary.outcome.error
              /\ error_feedback.traceback =
                    Get(h_last_primary.outcome, "traceback", <<>>)

\* attempt 1 is about to generate after attempt 0's submission and the
\* deep-analysis candidate, a different code, both failed to execute
C23_Witness ==
    /\ wpc = "generate"
    /\ attempt = 1
    /\ h_last_exec # None
    /\ h_last_exec.candidate
    /\ h_last_exec.code # h_last_primary.code
    /\ error_feedback.code = h_last_primary.code
    /\ error_feedback.traceback # <<>>

\* the stages that may come directly after a stage of the same question
\* cycle; "end" is a cycle that ended without a turn
StageOrder ==
    {<<"end", "budget">>, <<"append", "budget">>,
     <<"budget", "history">>,
     <<"history", "generation">>,
     <<"generation", "policy">>, <<"generation", "generation">>,
     <<"policy", "execution">>, <<"policy", "deep_analysis">>,
     <<"policy", "generation">>,
     <<"execution", "deep_analysis">>, <<"execution", "generation">>,
     <<"deep_analysis", "policy">>, <<"deep_analysis", "generation">>,
     <<"generation", "explanation">>, <<"policy", "explanation">>,
     <<"execution", "explanation">>, <<"deep_analysis", "explanation">>,
     <<"generation", "end">>, <<"execution", "end">>,
     <<"explanation", "append">>}

\* the stages of a step follow one another, and the first of them follows
\* the last stage of the step before, in the order StageOrder allows
InStageOrder(before, stages) ==
    /\ <<before[Len(before)], stages[1]>> \in StageOrder
    /\ \A i \in 1..(Len(stages) - 1) : <<stages[i], stages[i + 1]>> \in StageOrder

\* C24: the stages of one question are strictly sequential: budget check,
\* history selection, generation, policy check, execution, explanation,
\* turn append.  Every step of the cycle runs its stages one after the
\* other in that order; a generation call is issued only when no
\* execution or deep analysis is pending, and the deep-analysis fallback has
\* returned before the next generation call or the end of the loop.
C24_StagesSequential ==
    [][h_stages' # h_stages \/ wpc' # wpc =>
          /\ InStageOrder(h_stages, h_stages')
          /\ h_stages'[1] = "generation" =>
                /\ wpc = "generate"
                /\ gen_calls' = gen_calls + 1
                /\ UNCHANGED <<exec_calls, deep_calls>>
          /\ h_stages'[1] = "deep_analysis" =>
                /\ deep_calls' = deep_calls + 1
                /\ thinking_result' # None
                /\ wpc' \in {"deep_execute", "generate", "returned"}
                /\ UNCHANGED <<gen_calls, exec_calls>>
          /\ h_stages'[1] = "explanation" =>
                /\ wpc = "returned"
                /\ Len(turns') = Len(turns) + 1]_vars

\* a cycle that went through the deep analysis and a second attempt has
\* appended its turn
C24_Witness ==
    /\ h_stages = FinishStages
    /\ Len(turns) = 1
    /\ turns[1].retry_count = 1
    /\ wpc = "ready"

\* ---------------------------------------------------------------------
\* SessionManager.save and SessionManager.load (session.py)
\*
\* A turn is a ConversationTurn whose fields hold Python values; a value
\* carries its Python type, because the JSON text of the file keeps only
\* the JSON type.  save() writes json.dump of a dict built with asdict();
\* load() rebuilds each turn with ConversationTurn(**turn_data) from
\* what json.load returns.
\* ---------------------------------------------------------------------

\* the most turns the saved session holds
MaxTurns == 3

PyStr(s) == [type |-> "str", val |-> s]

PyInt(n) == [type |-> "int", val |-> n]

PyBool(b) == [type |-> "bool", val |-> b]

PyNone == [type |-> "NoneType"]

PyDict(items) == [type |-> "dict", val |-> items]

PyList(elems) == [type |-> "list", val |-> elems]

\* the fields of the ConversationTurn dataclass, in declaration order
TurnFields ==
    <<"timestamp", "question", "code", "execution_result", "explanation",
      "retry_count", "plot_path">>

FieldNames == {TurnFields[i] : i \in DOMAIN TurnFields}

\* the fields declared with a default value, and the default
FieldDefaults == [retry_count |-> PyInt(0), plot_path |-> PyNone]

RequiredFields == FieldNames \ DOMAIN FieldDefaults

\* the result dicts execute() returns, with the plot entries
\* analyze_question adds to them
SavedResults ==
    <<[success |-> PyBool(TRUE), stdout |-> PyStr("42"), stderr |-> PyStr(""),
       plot_saved |-> PyBool(TRUE), plot_path |-> PyStr("output/plot.png")],
      [success |-> PyBool(FALSE), error_type |-> PyStr("ValueError"),
       error |-> PyStr("bad value"), error_message |-> PyStr("bad value"),
       traceback |-> PyStr("Traceback"), stdout |-> PyStr(""),
       stderr |-> PyStr(""), plot_saved |-> PyBool(FALSE)],
      [success |-> PyBool(TRUE), stdout |-> PyStr(""), stderr |-> PyStr("warn"),
       plot_saved |-> PyBool(FALSE)]>>

\* the turn analyze_question builds around result number k
TurnOfResult(k) ==
    [timestamp |-> PyStr("2025-01-01T00:00:00"),
     question |-> PyStr("question"),
     code |-> PyStr("print(df)"),
     execution_result |-> PyDict(SavedResults[k]),
     explanation |-> PyStr(IF k = 3 THEN ExplanationPlaceholder ELSE "explanation"),
     retry_count |-> PyInt(k - 1),
     plot_path |-> IF k = 1 THEN PyStr("output/plot.png") ELSE PyNone]

SavedTurns == {TurnOfResult(k) : k \in DOMAIN SavedResults}

\* dataclasses.asdict without the fields that have a default
asdict_required_only(turn) == PyDict([f \in RequiredFields |-> turn[f]])

\* dataclasses.asdict(turn): a dict of every field
asdict(turn) == PyDict([f \in FieldNames |-> turn[f]])

\* ConversationTurn(**turn_data) raises TypeError on an unknown keyword
\* and on a missing field that has no default
AcceptsKeywords(kwargs) ==
    /\ DOMAIN kwargs \subseteq FieldNames
    /\ RequiredFields \subseteq DOMAIN kwargs

\* ConversationTurn(**turn_data)
ConversationTurn(kwargs) ==
    [f \in FieldNames |->
        IF f \in DOMAIN kwargs THEN kwargs[f] ELSE FieldDefaults[f]]

RECURSIVE json_dump(_)
\* json.dump: the JSON text of a Python value
json_dump(v) ==
    CASE v.type = "str" -> [json |-> "string", text |-> v.val]
      [] v.type = "int" -> [json |-> "number", text |-> v.val]
      [] v.type = "bool" -> [json |-> IF v.val THEN "true" ELSE "false"]
      [] v.type = "NoneType" -> [json |-> "null"]
      [] v.type = "dict" ->
            [json |-> "object",
             members |-> [k \in DOMAIN v.val |-> json_dump(v.val[k])]]
      [] v.type = "list" ->
            [json |-> "array",
             elements |-> [i \in DOMAIN v.val |-> json_dump(v.val[i])]]

RECURSIVE json_load(_)
\* json.load: the Python value of a JSON text
json_load(j) ==
    CASE j.json = "string" -> PyStr(j.text)
      [] j.json = "number" -> PyInt(j.text)
      [] j.json = "true" -> PyBool(TRUE)
      [] j.json = "false" -> PyBool(FALSE)
      [] j.json = "null" -> PyNone
      [] j.json = "object" ->
            PyDict([k \in DOMAIN j.members |-> json_load(j.members[k])])
      [] j.json = "array" ->
            PyList([i \in DOMAIN j.elements |-> json_load(j.elements[i])])

NoFile == [json |-> "no file"]

NotLoaded == [loaded |-> FALSE, turns |-> <<>>]

\* the data dict save() dumps
SaveData(turns_) ==
    PyDict([session_id |-> PyStr("20250101_000000"),
            created_at |-> PyStr("2025-01-01T00:00:00"),
            csv_path |-> PyNone,
            total_turns |-> PyInt(Len(turns_)),
            turns |-> PyList([i \in DOMAIN turns_ |-> asdict(turns_[i])])])

\* the turn dicts of a loaded data dict
TurnData(data) == data.val["turns"].val

StoreInit ==
    /\ SandboxIdle
    /\ RetryIdle
    /\ CompactIdle
    /\ EstimateIdle
    /\ BudgetIdle
    /\ ContextIdle
    /\ SessionIdle
    /\ AsyncIdle
    /\ session_turns = <<>>
    /\ session_file = NoFile
    /\ loaded_turns = NotLoaded
    /\ h_saved_turns = <<>>
    /\ save_call = None

\* session.add_turn(turn)
AddTurn ==
    /\ save_call = None
    /\ Len(session_turns) < MaxTurns
    /\ \E turn \in SavedTurns : session_turns' = Append(session_turns, turn)
    /\ UNCHANGED <<session_file, loaded_turns, h_saved_turns, save_call>>
    /\ UNCHANGED <<sandboxVars, retryVars, compactVars, estimateVars,
                   budgetVars, contextVars,
                   sessionVars, asyncVars>>

\* session.save()
Save ==
    /\ session_file' = json_dump(SaveData(session_turns))
    /\ h_saved_turns' = session_turns
    /\ UNCHANGED <<session_turns, loaded_turns, save_call>>
    /\ UNCHANGED <<sandboxVars, retryVars, compactVars, estimateVars,
                   budgetVars, contextVars,
                   sessionVars, asyncVars>>

\* SessionManager.load(filepath) of the file save() wrote
Load ==
    /\ session_file /= NoFile
    /\ LET data == json_load(session_file)
       IN /\ \A i \in DOMAIN TurnData(data) :
                 AcceptsKeywords(TurnData(data)[i].val)
          /\ loaded_turns' =
                 [loaded |-> TRUE,
                  turns |-> [i \in DOMAIN TurnData(data) |->
                                ConversationTurn(TurnData(data)[i].val)]]
    /\ UNCHANGED <<session_turns, session_file, h_saved_turns, save_call>>
    /\ UNCHANGED <<sandboxVars, retryVars, compactVars, estimateVars,
                   budgetVars, contextVars,
                   sessionVars, asyncVars>>

StoreNext ==
    \/ AddTurn
    \/ Save
    \/ Load

StoreSpec == StoreInit /\ [][StoreNext]_vars

\* C16: saving a session and loading it back yields the same turn
\* sequence: same length, same order, every turn equal field for field
\* (timestamp, question, code, execution outcome, explanation,
\* retry_count, artifact path).
C16_SaveLoadRoundTrip ==
    [][(loaded_turns'.loaded /\ loaded_turns' /= loaded_turns) =>
           /\ Len(loaded_turns'.turns) = Len(h_saved_turns)
           /\ \A i \in DOMAIN h_saved_turns :
                 \A f \in FieldNames :
                     loaded_turns'.turns[i][f] = h_saved_turns[i][f]]_vars

C16_Witness ==
    /\ loaded_turns.loaded
    /\ Len(h_saved_turns) = 2
    /\ loaded_turns.turns = h_saved_turns
    /\ h_saved_turns[1].plot_path = PyNone
    /\ h_saved_turns[1].retry_count = PyInt(1)
    /\ h_saved_turns[2].plot_path /= PyNone
    /\ h_saved_turns[2].execution_result.val.plot_saved = PyBool(TRUE)

-----------------------------------------------------------------------------
(* TokenCounter.calculate_context_tokens and the global context singleton *)

\* the longest history handed to calculate_context_tokens
MaxCtxHistory == 2

\* the most calls of calculate_context_tokens in a behaviour
MaxCalls == 3

\* GlobalContext(): nothing set
NewGlobalContext == [df_metadata |-> "None", sandbox_config |-> "None"]

NoInstance == [none |-> TRUE]

\* get_global_context(): the singleton, created on first use
get_global_context(instance) ==
    IF instance = NoInstance THEN NewGlobalContext ELSE instance

\* is_ready()
is_ready(ctx) == ctx.df_metadata # "None"

\* the lines get_global_context_prompt puts out for the dataset
DatasetLines == <<<<WideChar, WideChar>>, <<"3", WideChar, "2", WideChar>>>>

\* the text handed to set_sandbox_config
SandboxConfigText == <<"p", "d", "=", "p", "a", "n", "d", "a", "s">>

RECURSIVE JoinLines(_)
\* "\n".join(parts)
JoinLines(parts) ==
    IF parts = <<>> THEN <<>>
    ELSE IF Len(parts) = 1 THEN parts[1]
    ELSE parts[1] \o <<"\n">> \o JoinLines(Tail(parts))

\* get_global_context_prompt()
get_global_context_prompt(ctx) ==
    JoinLines((IF ctx.df_metadata # "None" THEN DatasetLines ELSE <<>>)
              \o (IF ctx.sandbox_config # "None"
                  THEN <<<<"\n">> \o SandboxConfigText>> ELSE <<>>))

\* a token count that always comes from the global context
GlobalContextTokensIgnoringArgument(arg, instance) ==
    LET global_ctx == get_global_context(instance)
    IN IF is_ready(global_ctx)
       THEN estimate_tokens(get_global_context_prompt(global_ctx))
       ELSE 0

\* tokens['global_context']: the argument when it is given, else the
\* estimate of the global context's prompt when the context is ready
GlobalContextTokens(arg, instance) ==
    IF arg.given THEN arg.tokens
    ELSE LET global_ctx == get_global_context(instance)
         IN IF is_ready(global_ctx)
            THEN estimate_tokens(get_global_context_prompt(global_ctx))
            ELSE 0

\* what one turn of the history adds to tokens['history']
TurnTokens(turn) ==
    estimate_tokens(Get(turn, "question", <<>>))
    + estimate_tokens(Get(turn, "code", <<>>))
    + (IF Get(Get(turn, "result", <<>>), "success", FALSE)
       THEN estimate_tokens(Get(turn.result, "stdout", <<>>)) ELSE 0)
    + estimate_tokens(Get(turn, "explanation", <<>>))

RECURSIVE HistoryTokens(_)
HistoryTokens(h) ==
    IF h = <<>> THEN 0 ELSE TurnTokens(Head(h)) + HistoryTokens(Tail(h))

\* calculate_context_tokens(question, history, global_context_tokens)
calculate_context_tokens(question, h, arg, instance) ==
    LET q == estimate_tokens(question)
        g == GlobalContextTokens(arg, instance)
        hist == HistoryTokens(h)
    IN [question |-> q, global_context |-> g, history |-> hist,
        total |-> q + g + hist]

\* the questions, turns and global_context_tokens arguments of the calls
CtxQuestions == {<<"x", "x", "x", "x">>, <<WideChar, WideChar>>}

CtxTurns ==
    {[question |-> <<WideChar, WideChar>>,
      code |-> <<"i", "f", " ", "x", "x", "x", "x", "x">>,
      result |-> [success |-> TRUE, stdout |-> <<"4", "2", "4", "2">>],
      explanation |-> <<WideChar, WideChar, WideChar, WideChar>>],
     [question |-> <<"x", "x", "x", "x">>,
      code |-> <<"x", "x", "x", "x">>,
      result |-> [success |-> FALSE, stdout |-> <<"4", "2", "4", "2">>],
      explanation |-> <<>>]}

CtxHistories == UNION {[1..n -> CtxTurns] : n \in 0..MaxCtxHistory}

CtxTokenArgs == {[given |-> FALSE, tokens |-> 0], [given |-> TRUE, tokens |-> 7]}

\* what the rest of the program can see of the global context
View(instance) ==
    [ready |-> is_ready(get_global_context(instance)),
     prompt |-> get_global_context_prompt(get_global_context(instance))]

ContextInit ==
    /\ SandboxIdle
    /\ RetryIdle
    /\ CompactIdle
    /\ EstimateIdle
    /\ BudgetIdle
    /\ StoreIdle
    /\ SessionIdle
    /\ AsyncIdle
    /\ global_context_instance = NoInstance
    /\ ctx_args \in [question : CtxQuestions, history : CtxHistories,
                     global_context_tokens : CtxTokenArgs]
    /\ snapshot = None
    /\ h_first = None
    /\ h_last = None

\* the global context was set or reset after the first call
Touched ==
    h_first' = IF h_first = None THEN h_first
               ELSE [h_first EXCEPT !.touched = TRUE]

\* get_global_context().set_dataframe_metadata(df_info, csv_path)
SetDataframeMetadata ==
    /\ global_context_instance' =
          [get_global_context(global_context_instance)
              EXCEPT !.df_metadata = "df_info"]
    /\ Touched
    /\ UNCHANGED <<ctx_args, snapshot, h_last>>
    /\ UNCHANGED <<sandboxVars, retryVars, compactVars, estimateVars,
                   budgetVars, storeVars, sessionVars, asyncVars>>

\* get_global_context().set_sandbox_config(config)
SetSandboxConfig ==
    /\ global_context_instance' =
          [get_global_context(global_context_instance)
              EXCEPT !.sandbox_config = "config"]
    /\ Touched
    /\ UNCHANGED <<ctx_args, snapshot, h_last>>
    /\ UNCHANGED <<sandboxVars, retryVars, compactVars, estimateVars,
                   budgetVars, storeVars, sessionVars, asyncVars>>

\* reset_global_context()
ResetGlobalContext ==
    /\ global_context_instance' = NoInstance
    /\ Touched
    /\ UNCHANGED <<ctx_args, snapshot, h_last>>
    /\ UNCHANGED <<sandboxVars, retryVars, compactVars, estimateVars,
                   budgetVars, storeVars, sessionVars, asyncVars>>

\* token_counter.calculate_context_tokens(question, history[, tokens])
CalculateContextTokens ==
    /\ IF h_last = None THEN TRUE ELSE h_last.calls < MaxCalls
    /\ snapshot' = calculate_context_tokens(ctx_args.question, ctx_args.history,
                                            ctx_args.global_context_tokens,
                                            global_context_instance)
    /\ global_context_instance' =
          IF ctx_args.global_context_tokens.given THEN global_context_instance
          ELSE get_global_context(global_context_instance)
    /\ h_first' = IF h_first = None
                  THEN [snapshot |-> snapshot',
                        view |-> View(global_context_instance),
                        touched |-> FALSE]
                  ELSE h_first
    /\ h_last' = [view |-> View(global_context_instance),
                  calls |-> IF h_last = None THEN 1 ELSE h_last.calls + 1]
    /\ UNCHANGED ctx_args
    /\ UNCHANGED <<sandboxVars, retryVars, compactVars, estimateVars,
                   budgetVars, storeVars, sessionVars, asyncVars>>

ContextNext ==
    \/ SetDataframeMetadata
    \/ SetSandboxConfig
    \/ ResetGlobalContext
    \/ CalculateContextTokens

ContextSpec == ContextInit /\ [][ContextNext]_vars

-----------------------------------------------------------------------------
(* Claims about calculate_context_tokens *)

\* C18 as stated: two calls with the same question, history and constants
\* return the same snapshot, whatever the global context holds.
C18_SnapshotIgnoresGlobalContext ==
    snapshot # None => snapshot = h_first.snapshot

\* C18: two calls with the same question, the same history and the same
\* global_context_tokens argument return the same snapshot when that
\* argument is given, or when the global context is as ready and has the
\* same prompt text at the second call as at the first.
C18_SnapshotSameForSameGlobalContext ==
    (/\ snapshot # None
     /\ \/ ctx_args.global_context_tokens.given
        \/ h_last.view = h_first.view) =>
        snapshot = h_first.snapshot

\* the global context was reset and set again between two calls made
\* without the argument, and the calls counted its prompt
C18_Witness ==
    /\ snapshot # None
    /\ h_last.calls >= 2
    /\ ~ctx_args.global_context_tokens.given
    /\ h_first.touched
    /\ h_last.view = h_first.view
    /\ h_first.view.ready
    /\ snapshot.global_context > 0
    /\ snapshot.history > 0
    /\ snapshot = h_first.snapshot

-----------------------------------------------------------------------------
(* SessionManager: add_turn, get_recent_history, compact_history             *)
(*                                                                         *)
(* session_turns is self.turns, keep_recent the attached compactor's       *)
(* keep_recent, safe_max_tokens the token counter's ceiling.  A stored     *)
(* turn carries what the compactor's rules read, as the histories of       *)
(* CompactSpec do.  The total of calculate_context_tokens also counts the   *)
(* question and the global context, so for any stored sequence it can lie  *)
(* on either side of the ceiling; it is an input of the queries.            *)

\* the most turns the session stores
MaxStored == 3

\* the ConversationTurn of question i
StoredTurn(i, kind) ==
    [timestamp |-> i,
     question |-> <<"question", i>>,
     code |-> <<"code", kind.key_code>>,
     execution_result |->
        IF kind.success
        THEN [success |-> TRUE, stdout |-> <<"stdout", i>>, plot_saved |-> FALSE]
        ELSE [success |-> FALSE, error_type |-> "ValueError",
              error |-> <<"error", i>>, plot_saved |-> FALSE],
     explanation |-> [decision |-> kind.decision, finding |-> kind.finding],
     retry_count |-> 0,
     plot_path |-> <<>>]

\* the result entry _turns_to_dicts builds with only_successful=True
SuccessfulPart(er) ==
    IF Get(er, "success", FALSE)
    THEN IF Get(er, "plot_saved", FALSE)
         THEN [success |-> TRUE, stdout |-> Get(er, "stdout", <<>>),
               plot_saved |-> TRUE, plot_path |-> Get(er, "plot_path", <<>>)]
         ELSE [success |-> TRUE, stdout |-> Get(er, "stdout", <<>>)]
    ELSE [success |-> FALSE]

\* _turns_to_dicts(self.turns, only_successful=True)
turns_to_dicts(stored) ==
    [i \in DOMAIN stored |->
        [question |-> stored[i].question,
         code |-> stored[i].code,
         explanation |-> stored[i].explanation,
         result |-> SuccessfulPart(stored[i].execution_result)]]

\* history_dicts[-n:] if len(history_dicts) > n else history_dicts
recent_history(history_dicts, n) ==
    IF Len(history_dicts) > n THEN SliceFrom(history_dicts, Neg(n))
    ELSE history_dicts

\* compact_history(keep_recent): the argument reaches only the branch
\* without a compactor
compact_history(stored, k) ==
    IF ~compactor_set
    THEN recent_history(turns_to_dicts(stored), k)
    ELSE compact(turns_to_dicts(stored), keep_recent)

\* if auto_compact and self.enable_smart_compression and self.compactor,
\* and should_compact(token_info['total'])
CompactionPath(auto_compact, total) ==
    /\ auto_compact
    /\ enable_smart_compression
    /\ compactor_set
    /\ should_compact(total)

\* get_recent_history(n, auto_compact, current_question)
get_recent_history(stored, n, auto_compact, total) ==
    IF CompactionPath(auto_compact, total)
    THEN compact_history(stored, n)
    ELSE recent_history(turns_to_dicts(stored), n)

\* a turn list that takes the new turn at its head
add_turn_first(stored, turn) == <<turn>> \o stored

\* self.turns.append(turn)
add_turn(stored, turn) == Append(stored, turn)

\* the totals of calculate_context_tokens: just under and at the ceiling
SessionTotals == {safe_max_tokens - 1, safe_max_tokens}

\* the n of get_recent_history when the caller leaves it out
DEFAULT_N == 3

\* SessionManager(...), set_compactor(ConversationCompactor(keep_recent=...))
SessionInit ==
    /\ SandboxIdle
    /\ RetryIdle
    /\ EstimateIdle
    /\ ContextIdle
    /\ AsyncIdle
    /\ session_turns = <<>>
    /\ session_file = NoFile
    /\ loaded_turns = NotLoaded
    /\ h_saved_turns = <<>>
    /\ save_call = None
    /\ keep_recent \in 0..MaxKeep
    /\ history = <<>>
    /\ compacted = <<>>
    /\ cpc = "idle"
    /\ model_max_tokens = MODEL_MAX_TOKENS
    /\ compression_threshold = DEFAULT_THRESHOLD
    /\ safe_max_tokens = SafeCeiling(model_max_tokens, compression_threshold)
    /\ budget_call = None
    /\ enable_smart_compression \in BOOLEAN
    /\ compactor_set \in BOOLEAN
    /\ compactor_set => enable_smart_compression
    /\ qpc = "idle"
    /\ view = <<>>
    /\ query = None

\* what no action of the session manager's history interface touches
SessionFrame ==
    /\ UNCHANGED <<session_file, loaded_turns, h_saved_turns, save_call>>
    /\ UNCHANGED <<enable_smart_compression, compactor_set>>
    /\ UNCHANGED <<sandboxVars, retryVars, compactVars, estimateVars,
                   budgetVars, contextVars, asyncVars>>

\* analyze_question: history = self.session.get_recent_history(question)
BeginQuestion ==
    /\ qpc = "idle"
    /\ Len(session_turns) < MaxStored
    /\ \E total \in SessionTotals :
          /\ view' = get_recent_history(session_turns, DEFAULT_N, TRUE, total)
          /\ query' = [op |-> "get_recent_history", n |-> DEFAULT_N,
                       auto_compact |-> TRUE, total |-> total]
    /\ qpc' = "loop"
    /\ UNCHANGED session_turns
    /\ SessionFrame

\* analyze_question: the retry loop returned a result; session.add_turn(turn);
\* return result.get('success', False), which the stored turn carries
EndQuestionWithTurn ==
    /\ qpc = "loop"
    /\ \E kind \in TurnKinds :
          /\ session_turns' =
                add_turn(session_turns, StoredTurn(Len(session_turns) + 1, kind))
          /\ query' = [op |-> "analyze_question", returned |-> kind.success]
    /\ qpc' = "idle"
    /\ view' = <<>>
    /\ SessionFrame

\* analyze_question: the retry loop returned no result; return False
EndQuestionWithoutTurn ==
    /\ qpc = "loop"
    /\ qpc' = "idle"
    /\ view' = <<>>
    /\ query' = [op |-> "analyze_question", returned |-> FALSE]
    /\ UNCHANGED session_turns
    /\ SessionFrame

\* session.get_recent_history(n, auto_compact, current_question)
GetRecentHistory ==
    /\ \E n \in 1..MaxKeep, auto_compact \in BOOLEAN, total \in SessionTotals :
          /\ view' = get_recent_history(session_turns, n, auto_compact, total)
          /\ query' = [op |-> "get_recent_history", n |-> n,
                       auto_compact |-> auto_compact, total |-> total]
    /\ UNCHANGED <<session_turns, qpc>>
    /\ SessionFrame

\* session.compact_history(keep_recent)
CompactHistory ==
    /\ \E k \in 0..MaxKeep :
          /\ view' = compact_history(session_turns, k)
          /\ query' = [op |-> "compact_history", k |-> k]
    /\ UNCHANGED <<session_turns, qpc>>
    /\ SessionFrame

SessionNext ==
    \/ BeginQuestion
    \/ EndQuestionWithTurn
    \/ EndQuestionWithoutTurn
    \/ GetRecentHistory
    \/ CompactHistory

SessionSpec == SessionInit /\ [][SessionNext]_vars

-----------------------------------------------------------------------------
(* Claims about the session's history *)

\* C25: the stored turn sequence is append-only across questions, history
\* queries and compactions.  A step either leaves it as it is, or is the end
\* of a question cycle and puts exactly one turn after the stored ones;
\* no query or compaction, automatic or manual, and no step inside a
\* cycle changes it.
C25_TurnsAppendOnly ==
    [][\/ session_turns' = session_turns
       \/ /\ qpc = "loop"
          /\ qpc' = "idle"
          /\ Len(session_turns') = Len(session_turns) + 1
          /\ SubSeq(session_turns', 1, Len(session_turns)) = session_turns]_vars

\* after the last question cycle a manual compaction returned a summary and
\* fewer turns than are stored, and every stored turn is still in its place
C25_Witness ==
    /\ Len(session_turns) = MaxStored
    /\ qpc = "idle"
    /\ query # None
    /\ query.op = "compact_history"
    /\ Len(view) >= 1
    /\ Len(view) < Len(session_turns)
    /\ view[1].question = SummaryMarker
    /\ \A i \in DOMAIN session_turns : session_turns[i].timestamp = i

\* C28 as stated: compact_history(keep_recent = k) on more than k stored
\* turns returns one summary turn followed by exactly the last k turns.
C28_CompactHistoryUsesItsArgument ==
    (/\ query # None
     /\ query.op = "compact_history"
     /\ Len(session_turns) > query.k) =>
        /\ Len(view) = query.k + 1
        /\ view[1].question = SummaryMarker
        /\ Tail(view) =
              SubSeq(turns_to_dicts(session_turns),
                     Len(session_turns) - query.k + 1, Len(session_turns))

\* C29 as stated: for the same stored turns, the history get_recent_history
\* returns on the compaction path never has more turns than the one it
\* returns when the threshold is not crossed.
C29_CompactionNeverLonger ==
    (/\ query # None
     /\ query.op = "get_recent_history"
     /\ CompactionPath(query.auto_compact, query.total)) =>
        Len(view) <= Len(recent_history(turns_to_dicts(session_turns), query.n))

-----------------------------------------------------------------------------
(* SessionManager.save as the file system sees it                          *)
(*                                                                         *)
(* save() builds the data dict, opens the session file with mode 'w',      *)
(* which empties it, and json.dump writes the text to it chunk by chunk;   *)
(* the with block closes the file, flushing what is still buffered.  An    *)
(* exception or an interruption between the open and the close leaves in   *)
(* the file what had been written until then; analyze_question logs the   *)
(* exception and goes on.  The chunks are the members of the data dict.    *)

\* the number of chunks json.dump writes for a JSON text
Chunks(record) == Cardinality(DOMAIN record.members)

\* the file holding the first `written` chunks of a JSON text
PartialFile(record, written) ==
    [json |-> "partial", of |-> record, written |-> written]

\* json.load(f): raises JSONDecodeError on a text that is not complete
LoadsCompletely(file) == file.json /= "partial"

PersistInit == StoreInit

\* save(): data = {...}; open(filepath, 'w')
SaveOpen ==
    /\ save_call = None
    /\ save_call' = [before |-> session_file,
                     record |-> json_dump(SaveData(session_turns))]
    /\ session_file' = PartialFile(json_dump(SaveData(session_turns)), 0)
    /\ UNCHANGED <<session_turns, loaded_turns, h_saved_turns>>
    /\ UNCHANGED <<sandboxVars, retryVars, compactVars, estimateVars,
                   budgetVars, contextVars, sessionVars, asyncVars>>

\* json.dump: fp.write(chunk) reaching the file
SaveWrite ==
    /\ save_call /= None
    /\ session_file.written < Chunks(save_call.record) - 1
    /\ session_file' = PartialFile(save_call.record, session_file.written + 1)
    /\ UNCHANGED <<session_turns, loaded_turns, h_saved_turns, save_call>>
    /\ UNCHANGED <<sandboxVars, retryVars, compactVars, estimateVars,
                   budgetVars, contextVars, sessionVars, asyncVars>>

\* the with block ends: the rest of the text is flushed, save() returns
SaveClose ==
    /\ save_call /= None
    /\ session_file' = save_call.record
    /\ h_saved_turns' = session_turns
    /\ save_call' = None
    /\ UNCHANGED <<session_turns, loaded_turns>>
    /\ UNCHANGED <<sandboxVars, retryVars, compactVars, estimateVars,
                   budgetVars, contextVars, sessionVars, asyncVars>>

\* a write raises or the process is interrupted: save() is left with the
\* file as it is; except Exception in analyze_question logs a warning
SaveFails ==
    /\ save_call /= None
    /\ save_call' = None
    /\ UNCHANGED <<session_turns, session_file, loaded_turns, h_saved_turns>>
    /\ UNCHANGED <<sandboxVars, retryVars, compactVars, estimateVars,
                   budgetVars, contextVars, sessionVars, asyncVars>>

\* a reader opens the session file and json.load()s it
ReadRecord ==
    /\ session_file /= NoFile
    /\ loaded_turns' =
          IF LoadsCompletely(session_file)
          THEN [loaded |-> TRUE,
                turns |-> [i \in DOMAIN TurnData(json_load(session_file)) |->
                    ConversationTurn(TurnData(json_load(session_file))[i].val)]]
          ELSE [loaded |-> FALSE, turns |-> <<>>,
                raised |-> "JSONDecodeError"]
    /\ UNCHANGED <<session_turns, session_file, h_saved_turns, save_call>>
    /\ UNCHANGED <<sandboxVars, retryVars, compactVars, estimateVars,
                   budgetVars, contextVars, sessionVars, asyncVars>>

PersistNext ==
    \/ AddTurn
    \/ SaveOpen
    \/ SaveWrite
    \/ SaveClose
    \/ SaveFails
    \/ ReadRecord

PersistSpec == PersistInit /\ [][PersistNext]_vars

\* C26 as stated: a reader of the persisted session record never observes
\* a partial write.  At every moment the file holds a complete record, and
\* while a save is under way that record is the one before the save or the
\* one the save writes; what a reader has read is a complete record too.
C26_NoPartialRecordObservable ==
    /\ LoadsCompletely(session_file)
    /\ save_call /= None =>
          session_file \in {save_call.before, save_call.record}
    /\ "raised" \notin DOMAIN loaded_turns

-----------------------------------------------------------------------------
(* Claims about the sandbox's syntax stage and its builtins *)

\* C27: a submission that fails to parse is never reported as a policy
\* violation.  When execute has returned for a submission ast.parse
\* rejects, the policy check raised nothing for it, the outcome is a
\* failure whose error_type is SyntaxError and not SecurityError, and
\* nothing of the submission ran: no statement executed, the namespace
\* is the one the call found, nothing was captured.
C27_ParseFailureIsNotPolicyViolation ==
    (spc = "returned" /\ ~sub.parses) =>
        /\ ~check_code_safety(sub).violation
        /\ h_path = "syntax"
        /\ ~outcome.success
        /\ outcome.error_type = "SyntaxError"
        /\ outcome.error_type /= SecurityOutcome(<<>>).error_type
        /\ h_ran = 0
        /\ globals_dict = h_before
        /\ stdout_capture = <<>>

C27_Witness ==
    /\ spc = "returned"
    /\ ~sub.parses
    /\ outcome = SyntaxOutcome
    /\ h_path = "syntax"

\* C30 as stated: after initialization and after every reset every key of
\* the namespace's builtins is a member of the allow-list and no
\* denylisted builtin is exposed.
C30_BuiltinsWithinAllowList ==
    (h_path = "reset" \/ globals_dict = init_globals) =>
        /\ globals_dict["__builtins__"] \subseteq ALLOWED_BUILTINS
        /\ globals_dict["__builtins__"] \cap FORBIDDEN_BUILTINS = {}

-----------------------------------------------------------------------------
(* Claims about what a run leaves: error kind, captured output, namespace *)

\* C31 as stated: for every runtime exception other than the timeout that
\* is raised while a submission runs, the outcome's error_type is the class
\* name of the exception raised.
C31_ErrorKindIsRaisedClass ==
    (spc = "returned" /\ h_path = "exception") =>
        outcome.error_type = pending_exc.cls

\* the number of print statements among the first n of a body
PrintsIn(body, n) == Cardinality({i \in 1..n : body[i].op = "print"})

\* C32: when a run times out, the outcome carries the output captured
\* before the interrupt: its stdout is the capture as it stood, one line
\* for each print statement that ran, and its stderr field is present.
C32_TimeoutKeepsCapturedOutput ==
    (spc = "returned" /\ h_path = "timeout") =>
        /\ outcome.error_type = "TimeoutError"
        /\ outcome.stdout = stdout_capture
        /\ Len(outcome.stdout) = PrintsIn(sub.body, h_ran)
        /\ "stderr" \in DOMAIN outcome

C32_Witness ==
    /\ spc = "returned"
    /\ h_path = "timeout"
    /\ h_ran >= 1
    /\ Len(outcome.stdout) >= 1

\* the names the statement about to run binds
BoundByNextStatement ==
    IF spc = "exec" /\ sub.body[ip].op = "assign"
    THEN {sub.body[ip].name} ELSE {}

C36_ExecuteNeverPropagates ==
    spc = "returned" => "success" \in DOMAIN outcome

-----------------------------------------------------------------------------
(* ConversationCompactor on long histories *)

\* the longest history whose summary is examined
MaxSummarised == 7

\* the histories of up to m turns handed to compact(); with m =
\* MaxSummarised they are long enough for every cap to bite
LongHistories(m) ==
    UNION {{[i \in 1..n |-> TurnDict(i, kinds[i])] : kinds \in [1..n -> TurnKinds]} :
            n \in 0..m}

SummaryInit ==
    /\ keep_recent \in 0..MaxKeep
    /\ history \in LongHistories(MaxSummarised)
    /\ compacted = <<>>
    /\ cpc = "input"
    /\ RetryIdle
    /\ SandboxIdle
    /\ EstimateIdle
    /\ BudgetIdle
    /\ StoreIdle
    /\ ContextIdle
    /\ SessionIdle
    /\ AsyncIdle

SummarySpec == SummaryInit /\ [][CompactNext]_vars

\* the compacted history starts with a summary turn
HasSummary ==
    /\ cpc = "done"
    /\ Len(compacted) >= 1
    /\ compacted[1].question = SummaryMarker

\* C34: the compaction summary contains at most 5 decision items, at most
\* 5 code-operation items, at most 5 key-finding items and at most 3 error
\* items, however many turns are compressed; the items listed are the
\* first ones found, in turn order.
C34_SummaryItemsCapped ==
    HasSummary =>
        LET summary == compacted[1].explanation
            key_info == extract_key_information(to_compress(history, keep_recent))
        IN /\ Len(summary.decisions) <= 5
           /\ Len(summary.code_changes) <= 5
           /\ Len(summary.findings) <= 5
           /\ Len(summary.errors) <= 3
           /\ summary.decisions =
                 SubSeq(key_info.important_decisions, 1, Len(summary.decisions))
           /\ summary.code_changes =
                 SubSeq(key_info.code_changes, 1, Len(summary.code_changes))
           /\ summary.findings =
                 SubSeq(key_info.key_findings, 1, Len(summary.findings))
           /\ summary.errors =
                 SubSeq(key_info.errors_encountered, 1, Len(summary.errors))

\* six turns were compressed; six of them had a code operation and four
\* an error, and the summary lists five and three of them
C34_Witness ==
    /\ HasSummary
    /\ Len(to_compress(history, keep_recent)) = 6
    /\ Len(extract_key_information(to_compress(history, keep_recent)).code_changes) = 6
    /\ Len(extract_key_information(to_compress(history, keep_recent)).errors_encountered) = 4
    /\ Len(compacted[1].explanation.code_changes) = 5
    /\ Len(compacted[1].explanation.errors) = 3

-----------------------------------------------------------------------------
(* The retry loop with a sandbox call that may not return                  *)
(*                                                                         *)
(* exec(code, self.globals_dict) is stopped only by the TimeoutError that  *)
(* timeout_handler raises inside the submission.  A submission that loops  *)
(* and catches that exception, or any endless submission where SIGALRM     *)
(* does not exist, keeps execute() from returning.                         *)

\* result = self.executor.execute(code) does not return: the orchestrator
\* stays blocked inside the call, so "in_execute" has no successor
ExecuteCodeNeverReturns ==
    /\ wpc = "execute"
    /\ wpc' = "in_execute"
    /\ h_stages' = <<"policy", "execution">>
    /\ exec_calls' = exec_calls + 1
    /\ UNCHANGED <<max_retries, attempt, code, last_code, last_result,
                   error_feedback, thinking_result, ret, turns, asked,
                   aq_return, h_explain_failed, gen_calls, deep_calls,
                   h_last_exec, h_last_primary, h_gen0_failed, h_exec_raised,
                   h_ends, ui_errors, h_failures>>
    /\ UNCHANGED <<sandboxVars, auxVars>>

RetryLiveNext ==
    \/ AskQuestion
    \/ GenerateCode
    \/ GenerateCodeFails
    \/ ExecuteCode
    \/ ExecuteCodeRaises
    \/ ExecuteCodeNeverReturns
    \/ DeepAnalysis
    \/ ExecuteCandidate
    \/ ExecuteCandidateRaises
    \/ FinishWithoutResult
    \/ FinishWithTurn

\* every call that returns or raises does so in finite time, and the
\* orchestrator keeps running
RetryLiveSpec ==
    RetryInit /\ [][RetryLiveNext]_vars /\ WF_vars(RetryLiveNext)

\* the retry loop of a question is running
InRetryLoop == wpc \notin {"ready", "returned"}

\* the calls the retry loop has issued stay within their bounds
CallsBounded ==
    /\ gen_calls <= max_retries
    /\ deep_calls <= 1
    /\ exec_calls <= max_retries + 1

\* C35 as stated: for every question and every behaviour of the generation
\* service and the sandbox the retry loop terminates, having issued at most
\* max_retries generation calls, at most one deep-analysis call and at most
\* max_retries + 1 executions.
C35_RetryLoopTerminates ==
    /\ []CallsBounded
    /\ [](InRetryLoop => <>(wpc = "returned"))

-----------------------------------------------------------------------------
(* Claims about what analyze_question records *)

\* the step in which analyze_question returns
QuestionEnds == wpc = "returned" /\ wpc' = "ready"

\* the step appends exactly one turn after the stored ones
AppendsOneTurn ==
    /\ Len(turns') = Len(turns) + 1
    /\ SubSeq(turns', 1, Len(turns)) = turns

\* C37: analyze_question appends exactly one turn when at least one
\* primary/fix execution outcome was produced for the question, successful
\* or failed, and appends no turn when every attempt ended in a generation
\* failure; it returns True exactly when it appended a turn whose outcome
\* has success = true.  No other step changes the turns.
C37_TurnAppendedIffOutcomeProduced ==
    [][/\ QuestionEnds =>
             /\ h_last_primary /= None => AppendsOneTurn
             /\ (exec_calls = 0 /\ gen_calls = max_retries) =>
                    (turns' = turns /\ ~aq_return')
             /\ aq_return' <=>
                    /\ AppendsOneTurn
                    /\ turns'[Len(turns')].execution_result.success
       /\ ~QuestionEnds => turns' = turns]_vars

\* a question whose first attempt produced a failed outcome and whose last
\* attempt ended in the except clause: the turn with that outcome is stored
\* and analyze_question returned False
C37_Witness ==
    /\ wpc = "ready"
    /\ asked = 1
    /\ max_retries >= 2
    /\ Len(turns) = 1
    /\ ~turns[1].execution_result.success
    /\ turns[1].retry_count = max_retries - 1
    /\ ~aq_return

-----------------------------------------------------------------------------
(* Claims about the budget status and the compaction decision *)

\* C38: the budget status and the compaction decision agree for every
\* total: get_context_window_status reports status = critical if and only
\* if should_compact(total) is true, and its should_compact field equals
\* should_compact(total), which is total >= safe_max_tokens.
C38_StatusAgreesWithShouldCompact ==
    Called("get_context_window_status") =>
        /\ budget_call.result.status = "critical"
              <=> should_compact(budget_call.total)
        /\ budget_call.result.should_compact = should_compact(budget_call.total)
        /\ budget_call.result.should_compact
              <=> budget_call.total >= safe_max_tokens

\* the status of a total exactly at the default safe ceiling
C38_Witness ==
    /\ Called("get_context_window_status")
    /\ safe_max_tokens = SafeCeiling(MODEL_MAX_TOKENS, DEFAULT_THRESHOLD)
    /\ budget_call.total = safe_max_tokens
    /\ budget_call.result.status = "critical"
    /\ budget_call.result.should_compact

-----------------------------------------------------------------------------
(* AsyncErrorAnalyzer: analyze_error_async and _analyze_error_thread       *)
(*                                                                         *)
(* Each call starts a daemon thread that runs                              *)
(*     try:    result = analyze_error_with_thinking(...); callback(result) *)
(*     except Exception as e:  callback({'success': False, ...})           *)
(* The callback is the caller's; each invocation of it returns or raises.  *)

\* the most analyze_error_async calls
MaxThreads == 2

\* the dict the except clause hands to the callback
AsyncFailure == [success |-> FALSE, code |-> NoCode, error |-> "str(e)"]

\* the thread of call i moves to pc, its callback having been given args
ThreadStep(i, pc, result, args) ==
    threads' = [threads EXCEPT ![i] =
                   [pc |-> pc, result |-> result,
                    delivered |-> threads[i].delivered \o args]]

\* what no action of the analyzer touches
AsyncFrame ==
    UNCHANGED <<sandboxVars, retryVars, compactVars, estimateVars, budgetVars,
                storeVars, contextVars, sessionVars>>

AsyncInit ==
    /\ SandboxIdle
    /\ RetryIdle
    /\ CompactIdle
    /\ EstimateIdle
    /\ BudgetIdle
    /\ StoreIdle
    /\ ContextIdle
    /\ SessionIdle
    /\ threads = <<>>

\* analyze_error_async(..., callback): thread.start()
AnalyzeErrorAsync ==
    /\ Len(threads) < MaxThreads
    /\ threads' = Append(threads,
                         [pc |-> "try", result |-> None, delivered |-> <<>>])
    /\ AsyncFrame

\* result = self.analyze_error_with_thinking(...) returns a dict
AnalysisReturns ==
    /\ \E i \in DOMAIN threads, result \in ThinkingResults :
          /\ threads[i].pc = "try"
          /\ ThreadStep(i, "callback", result, <<>>)
    /\ AsyncFrame

\* analyze_error_with_thinking raises
AnalysisRaises ==
    /\ \E i \in DOMAIN threads :
          /\ threads[i].pc = "try"
          /\ ThreadStep(i, "except", None, <<>>)
    /\ AsyncFrame

\* callback(result) in the try block returns: the thread function ends
CallbackReturns ==
    /\ \E i \in DOMAIN threads :
          /\ threads[i].pc = "callback"
          /\ ThreadStep(i, "ended", threads[i].result, <<threads[i].result>>)
    /\ AsyncFrame

\* callback(result) in the try block raises: except Exception takes over
CallbackRaises ==
    /\ \E i \in DOMAIN threads :
          /\ threads[i].pc = "callback"
          /\ ThreadStep(i, "except", threads[i].result, <<threads[i].result>>)
    /\ AsyncFrame

\* callback({...}) in the except clause returns: the thread function ends
ExceptCallbackReturns ==
    /\ \E i \in DOMAIN threads :
          /\ threads[i].pc = "except"
          /\ ThreadStep(i, "ended", threads[i].result, <<AsyncFailure>>)
    /\ AsyncFrame

\* callback({...}) in the except clause raises: the exception ends the thread
ExceptCallbackRaises ==
    /\ \E i \in DOMAIN threads :
          /\ threads[i].pc = "except"
          /\ ThreadStep(i, "died", threads[i].result, <<AsyncFailure>>)
    /\ AsyncFrame

AsyncNext ==
    \/ AnalyzeErrorAsync
    \/ AnalysisReturns
    \/ AnalysisRaises
    \/ CallbackReturns
    \/ CallbackRaises
    \/ ExceptCallbackReturns
    \/ ExceptCallbackRaises

AsyncSpec == AsyncInit /\ [][AsyncNext]_vars

\* C39 as stated: the completion callback is invoked exactly once per
\* analyze_error_async call, whether the analysis succeeds, fails, or the
\* callback itself raises: never more than once, and once when the thread
\* has finished.
C39_CallbackExactlyOnce ==
    \A i \in DOMAIN threads :
        /\ Len(threads[i].delivered) <= 1
        /\ threads[i].pc \in {"ended", "died"} =>
              Len(threads[i].delivered) = 1

=============================================================================
